---- MODULE Spec2Model ----
(***************************************************************************)
(* A model of the options pricing library: the Option object               *)
(* (src/src/option.cpp), the three pricing engines (black_scholes.cpp,     *)
(* binomial.cpp, monte_carlo.cpp) and the calls between them.              *)
(*                                                                         *)
(* Numbers.  The library computes in double; the model computes in fixed   *)
(* point with Scale units to 1.0.  strike and spot are prices, rate,       *)
(* volatility and dividend are decimals (0.2 is 2000 units); expiry is     *)
(* held in days (1/365 of a year), so that the one-day bump                *)
(* h = 1.0 / 365.0 of the theta functions is exactly one unit.             *)
(*                                                                         *)
(* Functions.  Every function of the library that reads or writes an       *)
(* Option is transcribed statement by statement as a listing of            *)
(* instructions (the definitions named after the functions, below).  One   *)
(* interpreter, Step, executes a listing one statement at a time against   *)
(* the shared Option; Run executes a call to its end.  The sequential      *)
(* specification runs whole calls; the concurrent ones interleave the      *)
(* statements of two calls.                                                *)
(***************************************************************************)
EXTENDS Integers, Sequences, FiniteSets, TLC

VARIABLES
    alive,      \* whether the Option object exists (constructed, not destroyed)
    option,     \* the Option's fields: type_, strike_, ... engine_, and its class
    lastCall,   \* the last call made: the function, how it was reached
                \* ("new", "setter", "option" or the engine called), a
                \* setter's argument, and the outcome
    pre,        \* the Option's fields when the last call was made
    ret,        \* the value the last query returned: an expression over
                \* numbers and prices
    unrestored, \* how many calls so far left the Option other than they found it
    binomial,   \* the BinomialTreeEngine's fields: num_steps_ and use_bbs_
    configured, \* the fields the BinomialTreeEngine was constructed with
    monteCarlo, \* the MonteCarloEngine's fields last_mean_ and last_stderr_
    priced,     \* the parameters of the Option of the most recent price()
                \* through the MonteCarloEngine (sequential specifications)
    callers     \* the concurrent callers: each one's call in progress

vars == <<alive, option, lastCall, pre, ret, unrestored, binomial, configured,
          monteCarlo, priced, callers>>

\* the engines' fields and the concurrent callers
engineVars == <<binomial, configured, monteCarlo, priced, callers>>

-----------------------------------------------------------------------------
(* Units and the library's numeric constants                               *)

Scale == 100 * 100

\* maximal number of calls that leave the Option changed which a run explores
MaxUnrestored == 1

\* const double h = 0.01;  (Option::delta, Option::gamma)
OptionSpotBump == Scale \div 100

\* const double h = 0.0001;  (vega and rho, every implementation)
SmallBump == Scale \div 10000

\* const double h = 1.0 / 365.0;  one day: one unit of expiry, and as a
\* fraction of a year in the quotient a theta function returns
OneDay == 1
YearFraction == Scale \div 365

NoEngine == "nullptr"
Engines == {"BlackScholes", "Binomial", "MonteCarlo"}

-----------------------------------------------------------------------------
(* Option: validation and setters                                          *)

\* validateParameters without its last check
validateParameters_NoDividendCheck(o) ==
    IF o.strike <= 0 THEN "InvalidParameter"
    ELSE IF o.expiry <= 0 THEN "InvalidParameter"
    ELSE IF o.spot <= 0 THEN "InvalidParameter"
    ELSE IF o.volatility <= 0 THEN "InvalidParameter"
    ELSE "ok"

\* Option::validateParameters: the first violated condition throws
\* std::invalid_argument (the InvalidParameter condition).
validateParameters(o) ==
    IF o.strike <= 0 THEN "InvalidParameter"
    ELSE IF o.expiry <= 0 THEN "InvalidParameter"
    ELSE IF o.spot <= 0 THEN "InvalidParameter"
    ELSE IF o.volatility <= 0 THEN "InvalidParameter"
    ELSE IF o.dividend < 0 THEN "InvalidParameter"
    ELSE "ok"

\* Option::setSpot: spot_ = spot; validateParameters();
setSpot(o, spot) ==
    LET o2 == [o EXCEPT !.spot = spot]
    IN [o |-> o2, out |-> validateParameters(o2)]

\* setRate writes dividend_ as well
setRate_ClearsDividend(o, rate) ==
    LET o2 == [o EXCEPT !.rate = rate, !.dividend = 0]
    IN [o |-> o2, out |-> validateParameters(o2)]

\* Option::setRate: rate_ = rate; validateParameters();
setRate(o, rate) ==
    LET o2 == [o EXCEPT !.rate = rate]
    IN [o |-> o2, out |-> validateParameters(o2)]

\* Option::setVolatility: volatility_ = volatility; validateParameters();
setVolatility(o, volatility) ==
    LET o2 == [o EXCEPT !.volatility = volatility]
    IN [o |-> o2, out |-> validateParameters(o2)]

\* Option::setDividend: dividend_ = dividend; validateParameters();
setDividend(o, dividend) ==
    LET o2 == [o EXCEPT !.dividend = dividend]
    IN [o |-> o2, out |-> validateParameters(o2)]

\* Option::setExpiry is declared in option.h and called by the engines, but
\* the repository's sources do not define it.  It is modelled from the
\* specification's data model: a mutator re-validates the invariants and
\* commits only a state that satisfies them.
setExpiry(o, expiry) ==
    LET o2 == [o EXCEPT !.expiry = expiry]
    IN IF validateParameters(o2) = "ok"
       THEN [o |-> o2, out |-> "ok"]
       ELSE [o |-> o, out |-> "InvalidParameter"]

\* Option::setPricingEngine: engine_ = engine;
setPricingEngine(o, engine) ==
    [o EXCEPT !.engine = engine]

\* Option::Option: the member initialisers, then validateParameters(); a
\* throwing constructor yields no object.
OptionCtor(class, type, strike, expiry, spot, rate, volatility, dividend) ==
    LET o == [class |-> class, type |-> type, strike |-> strike,
              expiry |-> expiry, spot |-> spot, rate |-> rate,
              volatility |-> volatility, dividend |-> dividend,
              engine |-> NoEngine]
    IN [o |-> o, out |-> validateParameters(o)]

\* the setter a "set" statement calls
CallSetter(field, o, v) ==
    CASE field = "spot" -> setSpot(o, v)
      [] field = "rate" -> setRate(o, v)
      [] field = "volatility" -> setVolatility(o, v)
      [] field = "dividend" -> setDividend(o, v)
      [] field = "expiry" -> setExpiry(o, v)

-----------------------------------------------------------------------------
(* Engines: what a price calculation reads, and when it throws             *)

\* the parameters a price calculation reads from the Option
Params(o) ==
    [class |-> o.class, type |-> o.type, strike |-> o.strike,
     expiry |-> o.expiry, spot |-> o.spot, rate |-> o.rate,
     volatility |-> o.volatility, dividend |-> o.dividend]

\* every engine looks at the variant of the Option
Reads_Variant(engine, o) == Params(o)

\* what an engine's calculation reads of the Option it is given as a const
\* Option&: the getters, and in the lattice engine alone the variant
\* (dynamic_cast<const AmericanOption*>(&option))
Reads(engine, o) ==
    IF engine = "Binomial" THEN Params(o)
    ELSE [Params(o) EXCEPT !.class = "Option"]

\* BlackScholesPricingEngine::calculateD1: the two guards before the formula
calculateD1Guard(o) ==
    IF o.expiry <= 0 THEN "InvalidParameter"
    ELSE IF o.volatility <= 0 THEN "InvalidParameter"
    ELSE "ok"

\* PricingEngine::calculate, by engine: only the analytic engine throws (from
\* calculateD1); the lattice and the simulation compute with whatever the
\* Option holds.
CalculateOutcome(engine, o) ==
    IF engine = "BlackScholes" THEN calculateD1Guard(o) ELSE "ok"

-----------------------------------------------------------------------------
(* Listings: the statements of each function, in order.                    *)
(*   <<"let", x, e>>     double x = e                                      *)
(*   <<"set", f, e>>     setF(e)                                           *)
(*   <<"poke", f, e>>    f_ = e   (a direct write, no validation)          *)
(*   <<"price", x>>      double x = price()         (Option::price)        *)
(*   <<"calc", x>>       double x = calculate(option)  (the engine called) *)
(*   <<"d1">>            calculateD1(...)                                  *)
(*   <<"ret", e>>        return e                                          *)
(* Expressions: R(x) a local, N(k) a number, F(f) the field f_ as it is    *)
(* now (option.getF()), <<"pct", e>> for 0.01 * e, and <<op, e1, e2>>.     *)

R(x) == <<"r", x>>
N(k) == <<"n", k>>
F(f) == <<"f", f>>

\* Option::price (and AmericanOption::price, which has the same body)
OptionPrice ==
    << <<"price", "p">>,
       <<"ret", R("p")>> >>

\* AmericanOption::price
AmericanOptionPrice ==
    << <<"price", "p">>,
       <<"ret", R("p")>> >>

\* Option::delta
OptionDelta ==
    << <<"let", "spot", F("spot")>>,
       <<"set", "spot", <<"+", R("spot"), N(OptionSpotBump)>> >>,
       <<"price", "price_up">>,
       <<"set", "spot", <<"-", R("spot"), N(OptionSpotBump)>> >>,
       <<"price", "price_down">>,
       <<"set", "spot", R("spot")>>,
       <<"ret", <<"/", <<"-", R("price_up"), R("price_down")>>,
                       <<"*", N(2 * Scale), N(OptionSpotBump)>> >> >> >>

\* Option::gamma
OptionGamma ==
    << <<"let", "spot", F("spot")>>,
       <<"set", "spot", <<"+", R("spot"), N(OptionSpotBump)>> >>,
       <<"price", "price_up">>,
       <<"set", "spot", <<"-", R("spot"), N(OptionSpotBump)>> >>,
       <<"price", "price_down">>,
       <<"set", "spot", R("spot")>>,
       <<"price", "price_mid">>,
       <<"ret", <<"/", <<"+", <<"-", R("price_up"),
                                     <<"*", N(2 * Scale), R("price_mid")>> >>,
                              R("price_down")>>,
                       <<"*", N(OptionSpotBump), N(OptionSpotBump)>> >> >> >>

\* Option::theta
OptionTheta ==
    << <<"let", "expiry", F("expiry")>>,
       <<"price", "original_price">>,
       <<"poke", "expiry", <<"-", F("expiry"), N(OneDay)>> >>,
       <<"price", "new_price">>,
       <<"poke", "expiry", R("expiry")>>,
       <<"ret", <<"/", <<"neg", <<"-", R("new_price"), R("original_price")>> >>,
                       N(YearFraction) >> >> >>

\* Option::vega
OptionVega ==
    << <<"let", "vol", F("volatility")>>,
       <<"set", "volatility", <<"+", R("vol"), N(SmallBump)>> >>,
       <<"price", "price_up">>,
       <<"set", "volatility", <<"-", R("vol"), N(SmallBump)>> >>,
       <<"price", "price_down">>,
       <<"set", "volatility", R("vol")>>,
       <<"ret", <<"/", <<"-", R("price_up"), R("price_down")>>,
                       <<"*", N(2 * Scale), N(SmallBump)>> >> >> >>

\* Option::rho
OptionRho ==
    << <<"let", "rate", F("rate")>>,
       <<"set", "rate", <<"+", R("rate"), N(SmallBump)>> >>,
       <<"price", "price_up">>,
       <<"set", "rate", <<"-", R("rate"), N(SmallBump)>> >>,
       <<"price", "price_down">>,
       <<"set", "rate", R("rate")>>,
       <<"ret", <<"/", <<"-", R("price_up"), R("price_down")>>,
                       <<"*", N(2 * Scale), N(SmallBump)>> >> >> >>

\* PricingEngine::calculate called on an engine directly
EngineCalculate ==
    << <<"calc", "value">>,
       <<"ret", R("value")>> >>

\* BlackScholesPricingEngine::calculateDelta .. calculateRho: the getters,
\* calculateD1, and the closed form of the Greek
BlackScholesGreek(greek) ==
    << <<"d1">>,
       <<"ret", <<"bs", greek>> >> >>

\* BinomialTreeEngine::calculateDelta
BinomialCalculateDelta ==
    << <<"let", "h", <<"pct", F("spot")>> >>,
       <<"let", "spot", F("spot")>>,
       <<"set", "spot", <<"+", R("spot"), R("h")>> >>,
       <<"calc", "up_price">>,
       <<"set", "spot", <<"-", R("spot"), R("h")>> >>,
       <<"calc", "down_price">>,
       <<"set", "spot", R("spot")>>,
       <<"ret", <<"/", <<"-", R("up_price"), R("down_price")>>,
                       <<"*", N(2 * Scale), R("h")>> >> >> >>

\* BinomialTreeEngine::calculateGamma
BinomialCalculateGamma ==
    << <<"let", "h", <<"pct", F("spot")>> >>,
       <<"let", "spot", F("spot")>>,
       <<"set", "spot", <<"+", R("spot"), R("h")>> >>,
       <<"calc", "up_price">>,
       <<"set", "spot", <<"-", R("spot"), R("h")>> >>,
       <<"calc", "down_price">>,
       <<"set", "spot", R("spot")>>,
       <<"calc", "mid_price">>,
       <<"ret", <<"/", <<"+", <<"-", R("up_price"),
                                     <<"*", N(2 * Scale), R("mid_price")>> >>,
                              R("down_price")>>,
                       <<"*", R("h"), R("h")>> >> >> >>

\* BinomialTreeEngine::calculateTheta
BinomialCalculateTheta ==
    << <<"let", "expiry", F("expiry")>>,
       <<"set", "expiry", <<"-", R("expiry"), N(OneDay)>> >>,
       <<"calc", "new_price">>,
       <<"set", "expiry", R("expiry")>>,
       <<"calc", "original_price">>,
       <<"ret", <<"/", <<"neg", <<"-", R("original_price"), R("new_price")>> >>,
                       N(YearFraction)>> >> >>

\* BinomialTreeEngine::calculateVega
BinomialCalculateVega ==
    << <<"let", "vol", F("volatility")>>,
       <<"set", "volatility", <<"+", R("vol"), N(SmallBump)>> >>,
       <<"calc", "up_price">>,
       <<"set", "volatility", <<"-", R("vol"), N(SmallBump)>> >>,
       <<"calc", "down_price">>,
       <<"set", "volatility", R("vol")>>,
       <<"ret", <<"/", <<"-", R("up_price"), R("down_price")>>,
                       <<"*", N(2 * Scale), N(SmallBump)>> >> >> >>

\* BinomialTreeEngine::calculateRho
BinomialCalculateRho ==
    << <<"let", "rate", F("rate")>>,
       <<"set", "rate", <<"+", R("rate"), N(SmallBump)>> >>,
       <<"calc", "up_price">>,
       <<"set", "rate", <<"-", R("rate"), N(SmallBump)>> >>,
       <<"calc", "down_price">>,
       <<"set", "rate", R("rate")>>,
       <<"ret", <<"/", <<"-", R("up_price"), R("down_price")>>,
                       <<"*", N(2 * Scale), N(SmallBump)>> >> >> >>

\* MonteCarloEngine::calculateDelta
MonteCarloCalculateDelta ==
    << <<"let", "h", <<"pct", F("spot")>> >>,
       <<"let", "spot", F("spot")>>,
       <<"set", "spot", <<"+", R("spot"), R("h")>> >>,
       <<"calc", "up_price">>,
       <<"set", "spot", <<"-", R("spot"), R("h")>> >>,
       <<"calc", "down_price">>,
       <<"set", "spot", R("spot")>>,
       <<"ret", <<"/", <<"-", R("up_price"), R("down_price")>>,
                       <<"*", N(2 * Scale), R("h")>> >> >> >>

\* calculateGamma without the last setSpot(spot)
MonteCarloCalculateGamma_NoReset ==
    << <<"let", "h", <<"pct", F("spot")>> >>,
       <<"let", "spot", F("spot")>>,
       <<"set", "spot", <<"+", R("spot"), R("h")>> >>,
       <<"calc", "up_price">>,
       <<"set", "spot", R("spot")>>,
       <<"calc", "center_price">>,
       <<"set", "spot", <<"-", R("spot"), R("h")>> >>,
       <<"calc", "down_price">>,
       <<"ret", <<"/", <<"+", <<"-", R("up_price"),
                                     <<"*", N(2 * Scale), R("center_price")>> >>,
                              R("down_price")>>,
                       <<"*", R("h"), R("h")>> >> >> >>

\* MonteCarloEngine::calculateGamma
MonteCarloCalculateGamma ==
    << <<"let", "h", <<"pct", F("spot")>> >>,
       <<"let", "spot", F("spot")>>,
       <<"set", "spot", <<"+", R("spot"), R("h")>> >>,
       <<"calc", "up_price">>,
       <<"set", "spot", R("spot")>>,
       <<"calc", "center_price">>,
       <<"set", "spot", <<"-", R("spot"), R("h")>> >>,
       <<"calc", "down_price">>,
       <<"set", "spot", R("spot")>>,
       <<"ret", <<"/", <<"+", <<"-", R("up_price"),
                                     <<"*", N(2 * Scale), R("center_price")>> >>,
                              R("down_price")>>,
                       <<"*", R("h"), R("h")>> >> >> >>

\* MonteCarloEngine::calculateTheta
MonteCarloCalculateTheta ==
    << <<"let", "expiry", F("expiry")>>,
       <<"set", "expiry", <<"+", R("expiry"), N(OneDay)>> >>,
       <<"calc", "price_plus_h">>,
       <<"set", "expiry", <<"-", R("expiry"), N(OneDay)>> >>,
       <<"calc", "price_minus_h">>,
       <<"set", "expiry", R("expiry")>>,
       <<"ret", <<"/", <<"neg", <<"-", R("price_plus_h"), R("price_minus_h")>> >>,
                       <<"*", N(2 * Scale), N(YearFraction)>> >> >> >>

\* MonteCarloEngine::calculateVega
MonteCarloCalculateVega ==
    << <<"let", "vol", F("volatility")>>,
       <<"set", "volatility", <<"+", R("vol"), N(SmallBump)>> >>,
       <<"calc", "up_price">>,
       <<"set", "volatility", <<"-", R("vol"), N(SmallBump)>> >>,
       <<"calc", "down_price">>,
       <<"set", "volatility", R("vol")>>,
       <<"ret", <<"/", <<"-", R("up_price"), R("down_price")>>,
                       <<"*", N(2 * Scale), N(SmallBump)>> >> >> >>

\* MonteCarloEngine::calculateRho
MonteCarloCalculateRho ==
    << <<"let", "rate", F("rate")>>,
       <<"set", "rate", <<"+", R("rate"), N(SmallBump)>> >>,
       <<"calc", "up_price">>,
       <<"set", "rate", <<"-", R("rate"), N(SmallBump)>> >>,
       <<"calc", "down_price">>,
       <<"set", "rate", R("rate")>>,
       <<"ret", <<"/", <<"-", R("up_price"), R("down_price")>>,
                       <<"*", N(2 * Scale), N(SmallBump)>> >> >> >>

Queries == {"price", "delta", "gamma", "theta", "vega", "rho"}
Greeks == Queries \ {"price"}

\* the virtual call option.q(): Option's implementation, but for price(),
\* which AmericanOption overrides
OptionListing(class, q) ==
    CASE q = "price" -> IF class = "American" THEN AmericanOptionPrice ELSE OptionPrice
      [] q = "delta" -> OptionDelta
      [] q = "gamma" -> OptionGamma
      [] q = "theta" -> OptionTheta
      [] q = "vega" -> OptionVega
      [] q = "rho" -> OptionRho

\* the virtual call engine.calculate / calculateDelta / ... (option)
EngineListing(engine, q) ==
    CASE q = "price" -> EngineCalculate
      [] q # "price" /\ engine = "BlackScholes" -> BlackScholesGreek(q)
      [] q = "delta" /\ engine = "Binomial" -> BinomialCalculateDelta
      [] q = "gamma" /\ engine = "Binomial" -> BinomialCalculateGamma
      [] q = "theta" /\ engine = "Binomial" -> BinomialCalculateTheta
      [] q = "vega" /\ engine = "Binomial" -> BinomialCalculateVega
      [] q = "rho" /\ engine = "Binomial" -> BinomialCalculateRho
      [] q = "delta" /\ engine = "MonteCarlo" -> MonteCarloCalculateDelta
      [] q = "gamma" /\ engine = "MonteCarlo" -> MonteCarloCalculateGamma
      [] q = "theta" /\ engine = "MonteCarlo" -> MonteCarloCalculateTheta
      [] q = "vega" /\ engine = "MonteCarlo" -> MonteCarloCalculateVega
      [] q = "rho" /\ engine = "MonteCarlo" -> MonteCarloCalculateRho

-----------------------------------------------------------------------------
(* The interpreter                                                         *)

\* a call in progress: the listing, the next statement, the locals, the
\* engine called (for "calc"), the outcome, the value returned, and the
\* parameters each price calculation of the call has read
NewFrame(prog, engine) ==
    [prog |-> prog, pc |-> 1, regs |-> <<>>, eng |-> engine,
     out |-> "running", ret |-> <<>>, evals |-> <<>>]

RECURSIVE IntEval(_, _, _)
IntEval(e, regs, o) ==
    CASE e[1] = "n" -> e[2]
      [] e[1] = "r" -> regs[e[2]][2]
      [] e[1] = "f" -> o[e[2]]
      [] e[1] = "+" -> IntEval(e[2], regs, o) + IntEval(e[3], regs, o)
      [] e[1] = "-" -> IntEval(e[2], regs, o) - IntEval(e[3], regs, o)
      [] e[1] = "pct" -> IntEval(e[2], regs, o) \div 100

\* the value of a return expression: the expression over the numbers and the
\* prices (<<"P", engine, parameters>>) the locals hold
RECURSIVE Subst(_, _, _)
Subst(e, regs, o) ==
    CASE e[1] = "n" -> e
      [] e[1] = "r" -> regs[e[2]]
      [] e[1] = "bs" -> <<"bs", e[2], Reads("BlackScholes", o)>>
      [] e[1] = "neg" -> <<"neg", Subst(e[2], regs, o)>>
      [] OTHER -> <<e[1], Subst(e[2], regs, o), Subst(e[3], regs, o)>>

Throw(fr, what) == [fr EXCEPT !.out = what]

\* engine.calculate(option): the engine reads the Option's parameters
Calc(fr, engine, x, o) ==
    IF CalculateOutcome(engine, o) # "ok"
    THEN Throw([fr EXCEPT !.evals = Append(@, Params(o))],
               CalculateOutcome(engine, o))
    ELSE [fr EXCEPT !.pc = @ + 1,
                    !.regs = (x :> <<"P", engine, Reads(engine, o)>>) @@ @,
                    !.evals = Append(@, Params(o))]

\* one statement of the call fr against the Option o
Step(fr, o) ==
    LET ins == fr.prog[fr.pc]
        next == [fr EXCEPT !.pc = @ + 1]
    IN CASE ins[1] = "let" ->
              [f |-> [next EXCEPT !.regs =
                         (ins[2] :> N(IntEval(ins[3], fr.regs, o))) @@ @],
               o |-> o]
         [] ins[1] = "set" ->
              LET r == CallSetter(ins[2], o, IntEval(ins[3], fr.regs, o))
              IN [f |-> IF r.out = "ok" THEN next ELSE Throw(fr, r.out),
                  o |-> r.o]
         [] ins[1] = "poke" ->
              [f |-> next,
               o |-> [o EXCEPT ![ins[2]] = IntEval(ins[3], fr.regs, o)]]
         [] ins[1] = "price" ->
              \* Option::price: if (!engine_) throw std::runtime_error(...)
              [f |-> IF o.engine = NoEngine
                     THEN Throw(fr, "EngineNotSet")
                     ELSE Calc(fr, o.engine, ins[2], o),
               o |-> o]
         [] ins[1] = "calc" ->
              [f |-> Calc(fr, fr.eng, ins[2], o), o |-> o]
         [] ins[1] = "d1" ->
              [f |-> IF calculateD1Guard(o) = "ok" THEN next
                     ELSE Throw(fr, calculateD1Guard(o)),
               o |-> o]
         [] ins[1] = "ret" ->
              [f |-> [fr EXCEPT !.out = "ok", !.ret = Subst(ins[2], fr.regs, o)],
               o |-> o]

\* a call executed to its end, with nothing interleaved
RECURSIVE Run(_, _)
Run(fr, o) ==
    IF fr.out # "running" THEN [f |-> fr, o |-> o]
    ELSE LET s == Step(fr, o) IN Run(s.f, s.o)

-----------------------------------------------------------------------------
(* Fixed-point arithmetic: the library's double operations at Scale units  *)
(* to 1.0, rounding toward zero.  NaN stands for a non-finite double (a    *)
(* NaN or an infinity).                                                    *)

NaN == 0 - 2147483647

Abs(a) == IF a < 0 THEN 0 - a ELSE a

Finite(a) == a # NaN

\* a * b
FMul(a, b) ==
    IF ~Finite(a) \/ ~Finite(b) THEN NaN
    ELSE LET big == IF Abs(a) >= Abs(b) THEN Abs(a) ELSE Abs(b)
             small == IF Abs(a) >= Abs(b) THEN Abs(b) ELSE Abs(a)
             m == (big \div Scale) * small + ((big % Scale) * small) \div Scale
         IN IF (a < 0) = (b < 0) THEN m ELSE 0 - m

\* the digits of r / y below the unit, for r < y, by long division
RECURSIVE FracDigits(_, _, _)
FracDigits(r, y, unit) ==
    IF unit = 1 THEN 0
    ELSE ((r * 10) \div y) * (unit \div 10)
            + FracDigits((r * 10) % y, y, unit \div 10)

\* a / b; a division by zero gives a non-finite value
FDiv(a, b) ==
    IF ~Finite(a) \/ ~Finite(b) \/ b = 0 THEN NaN
    ELSE LET x == Abs(a)
             y == Abs(b)
             m == (x \div y) * Scale + FracDigits(x % y, y, Scale)
         IN IF (a < 0) = (b < 0) THEN m ELSE 0 - m

FAdd(a, b) == IF ~Finite(a) \/ ~Finite(b) THEN NaN ELSE a + b

FSub(a, b) == IF ~Finite(a) \/ ~Finite(b) THEN NaN ELSE a - b

FNeg(a) == IF ~Finite(a) THEN NaN ELSE 0 - a

\* the integer square root, by Newton's iteration from above
RECURSIVE SqrtIter(_, _)
SqrtIter(n, r) ==
    LET next == (r + n \div r) \div 2
    IN IF next >= r THEN r ELSE SqrtIter(n, next)

\* std::sqrt: NaN for a negative argument
FSqrt(x) ==
    IF ~Finite(x) \/ x < 0 THEN NaN
    ELSE IF x = 0 THEN 0
    ELSE SqrtIter(x * Scale, x * Scale)

\* the exponential series 1 + x + x^2/2! + ... for x >= 0, to the last term
\* that is not zero at this precision
RECURSIVE ExpSeries(_, _, _, _)
ExpSeries(x, term, k, acc) ==
    IF term = 0 THEN acc
    ELSE ExpSeries(x, FMul(term, x) \div k, k + 1, acc + term)

\* std::exp
FExp(x) ==
    IF ~Finite(x) THEN NaN
    ELSE IF x >= 0 THEN ExpSeries(x, Scale, 1, 0)
    ELSE FDiv(Scale, ExpSeries(0 - x, Scale, 1, 0))

\* std::pow(x, n) for a node count n
RECURSIVE FPow(_, _)
FPow(x, n) == IF n = 0 THEN Scale ELSE FMul(FPow(x, n - 1), x)

\* std::max(a, b)
FMax(a, b) == IF a < b THEN b ELSE a

\* the Option's expiry, held in days, as the double getExpiry() returns: years
Years(expiry) == (expiry * Scale) \div 365

-----------------------------------------------------------------------------
(* BinomialTreeEngine: the tree                                            *)

\* the rows are not halved: step (step + 1) + node
getIndex_NoHalving(step, node) == step * (step + 1) + node

\* BinomialTreeEngine::getIndex
getIndex(step, node) == (step * (step + 1)) \div 2 + node

\* BinomialTreeEngine::calculatePayoff
calculatePayoff(o, spot_price) ==
    IF o.type = "Call"
    THEN FMax(spot_price - o.strike, 0)
    ELSE FMax(o.strike - spot_price, 0)

\* the risk-neutral probability leaves the dividend yield out of the drift
calculateParameters_NoDividend(o, dt) ==
    LET u == FExp(FMul(o.volatility, FSqrt(dt)))
        d == FDiv(Scale, u)
    IN [u |-> u, d |-> d,
        p |-> FDiv(FSub(FExp(FMul(o.rate, dt)), d), FSub(u, d))]

\* BinomialTreeEngine::calculateParameters: {u, d, p}
calculateParameters(o, dt) ==
    LET sigma == o.volatility
        r == o.rate
        q == o.dividend
        u == FExp(FMul(sigma, FSqrt(dt)))
        d == FDiv(Scale, u)
        p == FDiv(FSub(FExp(FMul(r - q, dt)), d), FSub(u, d))
    IN [u |-> u, d |-> d, p |-> p]

\* std::vector<double> v(n): n zeros, indexed from 0
ZeroVector(n) == [i \in 0 .. n - 1 |-> 0]

\* v[i] is an element of the vector v
InBounds(v, i) == i \in DOMAIN v

\* what is left of a vector written outside its bounds: undefined
\* behaviour, no slot can be relied on
Overrun(v) == [i \in DOMAIN v |-> NaN]

\* the inner loop of buildPriceTree: for (node = 0; node <= step; ++node)
RECURSIVE PriceNodes(_, _, _, _, _, _)
PriceNodes(price_tree, S, u, d, step, node) ==
    IF node > step THEN price_tree
    ELSE IF ~InBounds(price_tree, getIndex(step, node)) THEN Overrun(price_tree)
    ELSE PriceNodes(
            [price_tree EXCEPT ![getIndex(step, node)] =
                FMul(FMul(S, FPow(u, node)), FPow(d, step - node))],
            S, u, d, step, node + 1)

\* the outer loop of buildPriceTree: for (step = 0; step <= num_steps_; ++step)
RECURSIVE PriceSteps(_, _, _, _, _, _)
PriceSteps(price_tree, S, u, d, num_steps, step) ==
    IF step > num_steps THEN price_tree
    ELSE PriceSteps(PriceNodes(price_tree, S, u, d, step, 0),
                    S, u, d, num_steps, step + 1)

\* BinomialTreeEngine::buildPriceTree, with num_steps_ = num_steps
buildPriceTree(o, num_steps) ==
    LET dt == Years(o.expiry) \div num_steps
        udp == calculateParameters(o, dt)
    IN PriceSteps(ZeroVector(((num_steps + 1) * (num_steps + 2)) \div 2),
                  o.spot, udp.u, udp.d, num_steps, 0)

\* the terminal loop of calculateOptionValues
RECURSIVE TerminalValues(_, _, _, _, _)
TerminalValues(values, o, price_tree, num_steps, node) ==
    IF node > num_steps THEN values
    ELSE IF ~InBounds(values, getIndex(num_steps, node)) THEN Overrun(values)
    ELSE TerminalValues(
            [values EXCEPT ![getIndex(num_steps, node)] =
                calculatePayoff(o, price_tree[getIndex(num_steps, node)])],
            o, price_tree, num_steps, node + 1)

\* the inner loop of the backward induction at one step
RECURSIVE InductionNodes(_, _, _, _, _, _, _, _)
InductionNodes(values, o, price_tree, american, df, p, step, node) ==
    IF node > step THEN values
    ELSE IF ~InBounds(values, getIndex(step + 1, node + 1)) THEN Overrun(values)
    ELSE LET continuation ==
                 FMul(df, FMul(p, values[getIndex(step + 1, node + 1)])
                          + FMul(Scale - p, values[getIndex(step + 1, node)]))
             exercise == calculatePayoff(o, price_tree[getIndex(step, node)])
         IN InductionNodes(
                [values EXCEPT ![getIndex(step, node)] =
                    IF american THEN FMax(continuation, exercise)
                    ELSE continuation],
                o, price_tree, american, df, p, step, node + 1)

\* the outer loop of the backward induction:
\* for (size_t step = num_steps_ - 1; step != size_t(-1); --step)
RECURSIVE InductionSteps(_, _, _, _, _, _, _)
InductionSteps(values, o, price_tree, american, df, p, step) ==
    IF step = -1 THEN values
    ELSE InductionSteps(
            InductionNodes(values, o, price_tree, american, df, p, step, 0),
            o, price_tree, american, df, p, step - 1)

\* BinomialTreeEngine::calculateOptionValues, with num_steps_ = num_steps
calculateOptionValues(o, price_tree, american, num_steps) ==
    LET dt == Years(o.expiry) \div num_steps
        udp == calculateParameters(o, dt)
        df == FExp(0 - FMul(o.rate, dt))
    IN InductionSteps(
          TerminalValues(ZeroVector(((num_steps + 1) * (num_steps + 2)) \div 2),
                         o, price_tree, num_steps, 0),
          o, price_tree, american, df, udp.p, num_steps - 1)

\* BinomialTreeEngine::calculateWithParameters: the root value of the tree
\* with the given number of steps.  With a non-finite u, d or p (an expiry
\* <= 0 makes sqrt(dt) NaN or u - d zero) every continuation value is
\* non-finite, and so is the root, also through std::max(continuation,
\* exercise), which returns its first argument when the comparison fails.
\* With zero steps the tree is its root: price_tree[0] = S * pow(u, 0) *
\* pow(d, 0) = S also with u infinite, the terminal loop stores the payoff
\* at the root, and the backward loop, starting at size_t(-1), does not run.
calculateWithParameters(o, steps) ==
    LET dt == IF steps = 0 THEN 0 ELSE Years(o.expiry) \div steps
        udp == calculateParameters(o, dt)
        is_american == o.class = "American"
    IN IF steps = 0 THEN calculatePayoff(o, o.spot)
       ELSE IF ~Finite(udp.u) \/ ~Finite(udp.d) \/ ~Finite(udp.p) THEN NaN
       ELSE calculateOptionValues(o, buildPriceTree(o, steps), is_american,
                                  steps)[0]

\* the extrapolation pass repeats the tree of num_steps steps
applyBBSExtrapolation_SameSteps(o, value, num_steps) ==
    FSub(FMul(2 * Scale, calculateWithParameters(o, num_steps)), value)

\* BinomialTreeEngine::applyBBSExtrapolation
applyBBSExtrapolation(o, value, num_steps) ==
    LET double_steps == 2 * num_steps
        value2 == calculateWithParameters(o, double_steps)
    IN FSub(FMul(2 * Scale, value2), value)

\* BinomialTreeEngine::calculate on an engine with the fields e
BinomialCalculate(e, o) ==
    LET value == calculateWithParameters(o, e.num_steps_)
    IN IF e.use_bbs_ THEN applyBBSExtrapolation(o, value, e.num_steps_)
       ELSE value

\* the double a return expression evaluates to, its prices computed by the
\* BinomialTreeEngine with the fields e
RECURSIVE Value(_, _)
Value(x, e) ==
    CASE x[1] = "n" -> x[2]
      [] x[1] = "P" /\ x[2] = "Binomial" ->
            BinomialCalculate(e, x[3])
      [] x[1] = "neg" -> FNeg(Value(x[2], e))
      [] x[1] = "+" -> FAdd(Value(x[2], e), Value(x[3], e))
      [] x[1] = "-" -> FSub(Value(x[2], e), Value(x[3], e))
      [] x[1] = "*" -> FMul(Value(x[2], e), Value(x[3], e))
      [] x[1] = "/" -> FDiv(Value(x[2], e), Value(x[3], e))

-----------------------------------------------------------------------------
(* The sequential specification: one caller, one Option                    *)

Classes == {"European", "American"}
Types == {"Call", "Put"}

\* arguments of the constructor and the setters: valid values and the
\* invalid ones named by the specification (strike 0, expiry -1, spot 0,
\* volatility 0, dividend -0.01), a one-day expiry and a 1e-4 volatility
StrikeArgs == {0, 100 * Scale}
ExpiryArgs == {-365, 1, 30}
SpotArgs == {0, 100 * Scale}
RateArgs == {-500, 500}
VolatilityArgs == {0, 1, 2000}
DividendArgs == {-100, 0}

NoOption ==
    [class |-> "European", type |-> "Call", strike |-> 0, expiry |-> 0,
     spot |-> 0, rate |-> 0, volatility |-> 0, dividend |-> 0,
     engine |-> NoEngine]

NoCall == [op |-> "none", via |-> "none", arg |-> 0, out |-> "none"]

NoValue == <<>>

\* BinomialTreeEngine::BinomialTreeEngine: zero steps are rejected
BinomialTreeEngine(num_steps, use_bbs) ==
    [out |-> IF num_steps = 0 THEN "InvalidParameter" ELSE "ok",
     e |-> [num_steps_ |-> num_steps, use_bbs_ |-> use_bbs]]

\* the engine the sequential specification attaches: make_binomial_engine
\* with a small tree
DefaultBinomial == BinomialTreeEngine(2, TRUE).e

\* MonteCarloEngine::MonteCarloEngine: last_mean_(0.0), last_stderr_(0.0)
MonteCarloEngine == [last_mean_ |-> N(0), last_stderr_ |-> N(0)]

\* the statistics of a simulation run: a function of the Option simulated
\* (the batches' seeds are their indices)
RunMean(o) == <<"mean", "MonteCarlo", Params(o)>>
RunStderr(o) == <<"stderr", "MonteCarlo", Params(o)>>

\* MonteCarloEngine::calculate: last_mean_ = mean; last_stderr_ = stderr
StoreStatistics(o) == [last_mean_ |-> RunMean(o), last_stderr_ |-> RunStderr(o)]

\* the engine's statistics after a call whose price calculations, by the
\* given engine, read the parameters evals in turn: every calculate() of
\* the MonteCarloEngine stores its own
AfterCalls(mc, engine, evals) ==
    IF engine = "MonteCarlo" /\ evals # <<>>
    THEN StoreStatistics(evals[Len(evals)])
    ELSE mc

\* no price() has gone through the MonteCarloEngine
NotPriced == [engine |-> NoEngine]

NumCallers == 2
Callers == 1 .. NumCallers

\* how many calls each concurrent caller makes
MaxCalls == 1

Idle == [out |-> "idle"]

\* no caller has made a call
NoCallers == [c \in Callers |-> [call |-> Idle, made |-> 0]]

\* no call is in flight
Quiescent == \A c \in Callers : callers[c].call = Idle

Init ==
    /\ alive = FALSE
    /\ option = NoOption
    /\ lastCall = NoCall
    /\ pre = NoOption
    /\ ret = NoValue
    /\ unrestored = 0
    /\ binomial = DefaultBinomial
    /\ configured = binomial
    /\ monteCarlo = MonteCarloEngine
    /\ priced = NotPriced
    /\ callers = NoCallers

Construct(class, type, strike, expiry, spot, rate, volatility, dividend) ==
    LET r == OptionCtor(class, type, strike, expiry, spot, rate, volatility, dividend)
    IN /\ ~alive
       /\ alive' = (r.out = "ok")
       /\ option' = IF r.out = "ok" THEN r.o ELSE NoOption
       /\ pre' = r.o
       /\ lastCall' = [op |-> "Option", via |-> "new", arg |-> 0, out |-> r.out]
       /\ ret' = NoValue
       /\ unrestored' = 0
       /\ UNCHANGED engineVars

Destroy ==
    /\ alive
    /\ alive' = FALSE
    /\ option' = NoOption
    /\ pre' = option
    /\ lastCall' = [op |-> "~Option", via |-> "delete", arg |-> 0, out |-> "ok"]
    /\ ret' = NoValue
    /\ unrestored' = 0
    /\ UNCHANGED engineVars

SetPricingEngine(engine) ==
    /\ alive
    /\ option' = setPricingEngine(option, engine)
    /\ pre' = option
    /\ lastCall' = [op |-> "setPricingEngine", via |-> "setter", arg |-> 0,
                    out |-> "ok"]
    /\ ret' = NoValue
    /\ UNCHANGED <<alive, unrestored>>
    /\ UNCHANGED engineVars

\* what a call of a setter leaves: the Option as the setter left it and the
\* outcome
Returned(r, op, arg) ==
    /\ alive
    /\ option' = r.o
    /\ pre' = option
    /\ lastCall' = [op |-> op, via |-> "setter", arg |-> arg, out |-> r.out]
    /\ ret' = NoValue
    /\ UNCHANGED <<alive, unrestored>>
    /\ UNCHANGED engineVars

SetSpot(spot) == Returned(setSpot(option, spot), "setSpot", spot)

SetRate(rate) == Returned(setRate(option, rate), "setRate", rate)

SetVolatility(volatility) ==
    Returned(setVolatility(option, volatility), "setVolatility", volatility)

SetDividend(dividend) ==
    Returned(setDividend(option, dividend), "setDividend", dividend)

SetExpiry(expiry) == Returned(setExpiry(option, expiry), "setExpiry", expiry)

\* what a query leaves of the Option: the Option as the call left it, the
\* outcome and the value returned
FinishOption(r, q, via) ==
    /\ option' = r.o
    /\ pre' = option
    /\ lastCall' = [op |-> q, via |-> via, arg |-> 0, out |-> r.f.out]
    /\ ret' = r.f.ret
    /\ unrestored' = IF r.o = option THEN unrestored ELSE unrestored + 1
    /\ UNCHANGED alive

\* a query in the specifications of the Option, which leave the engines'
\* own fields aside: no price and no parameter of the Option depends on
\* the statistics the MonteCarloEngine keeps (the Monte Carlo
\* specification keeps them)
Finish(r, q, via) ==
    /\ FinishOption(r, q, via)
    /\ UNCHANGED engineVars

\* option.price(), option.delta(), ...
OptionQuery(q) ==
    /\ alive
    /\ unrestored < MaxUnrestored
    /\ Finish(Run(NewFrame(OptionListing(option.class, q), NoEngine), option),
              q, "option")

\* engine.calculate(option), engine.calculateDelta(option), ...
EngineQuery(engine, q) ==
    /\ alive
    /\ unrestored < MaxUnrestored
    /\ Finish(Run(NewFrame(EngineListing(engine, q), engine), option),
              q, engine)

Next ==
    \/ \E class \in Classes, type \in Types, strike \in StrikeArgs,
          expiry \in ExpiryArgs, spot \in SpotArgs, rate \in RateArgs,
          volatility \in VolatilityArgs, dividend \in DividendArgs :
            Construct(class, type, strike, expiry, spot, rate, volatility, dividend)
    \/ Destroy
    \/ \E engine \in Engines \cup {NoEngine} : SetPricingEngine(engine)
    \/ \E spot \in SpotArgs : SetSpot(spot)
    \/ \E rate \in RateArgs : SetRate(rate)
    \/ \E volatility \in VolatilityArgs : SetVolatility(volatility)
    \/ \E dividend \in DividendArgs : SetDividend(dividend)
    \/ \E expiry \in ExpiryArgs : SetExpiry(expiry)
    \/ \E q \in Queries : OptionQuery(q)
    \/ \E engine \in Engines, q \in Queries : EngineQuery(engine, q)

Spec == Init /\ [][Next]_vars

-----------------------------------------------------------------------------
(* Claims about the Option, checked under Spec                             *)

\* the Option invariant of the data model
OptionInvariant(o) ==
    /\ o.strike > 0
    /\ o.expiry > 0
    /\ o.spot > 0
    /\ o.volatility > 0
    /\ o.dividend >= 0

\* the argument of the last setter call violates the invariant
RejectedArgument ==
    \/ lastCall.op = "setSpot" /\ lastCall.arg <= 0
    \/ lastCall.op = "setVolatility" /\ lastCall.arg <= 0
    \/ lastCall.op = "setDividend" /\ lastCall.arg < 0
    \/ lastCall.op = "setExpiry" /\ lastCall.arg <= 0

\* C1: a setter call whose argument violates the invariant fails with
\* InvalidParameter and leaves every parameter of the Option as it was.
C1_RejectedSetterLeavesOption ==
    (lastCall.via = "setter" /\ RejectedArgument) =>
        (lastCall.out = "InvalidParameter" /\ option = pre)

\* C2: in every state after a successful construction, whatever calls
\* followed (failed ones included), the Option satisfies its invariant.
C2_OptionInvariantHolds ==
    alive => OptionInvariant(option)

\* C3: when a price or Greek query returns normally, whichever engine
\* computed it, every parameter of the Option and its engine reference
\* equal their values before the call.
C3_QueryRestoresOption ==
    (lastCall.op \in Queries /\ lastCall.out = "ok") => option = pre

\* a Greek of the simulation engine, which bumps the spot three times, has
\* returned normally
C3_Witness ==
    /\ lastCall.op = "gamma"
    /\ lastCall.via = "MonteCarlo"
    /\ lastCall.out = "ok"

\* C4: when a Greek query fails partway (no engine attached, or a bumped
\* value rejected), the Option's parameters are back at their values
\* before the call when the failure reaches the caller.
C4_FailedGreekRestoresOption ==
    (lastCall.op \in Greeks /\ lastCall.out \in {"InvalidParameter", "EngineNotSet"})
        => option = pre

\* C6: on an Option with no engine attached, each of price(), delta(),
\* gamma(), theta(), vega() and rho() fails with EngineNotSet, for a
\* EuropeanOption and for an AmericanOption.
C6_NoEngineFailsEngineNotSet ==
    (lastCall.via = "option" /\ lastCall.op \in Queries /\ pre.engine = NoEngine)
        => lastCall.out = "EngineNotSet"

\* C7: construction with strike <= 0, expiry <= 0, spot <= 0,
\* volatility <= 0 or dividend < 0 fails with InvalidParameter and yields
\* no Option; construction with valid parameters (any rate) succeeds, with
\* the parameters given and no engine attached.  (pre holds the arguments.)
C7_ConstructionValidates ==
    lastCall.via = "new" =>
        IF OptionInvariant(pre)
        THEN /\ lastCall.out = "ok"
             /\ alive
             /\ option = pre
             /\ option.engine = NoEngine
        ELSE /\ lastCall.out = "InvalidParameter"
             /\ ~alive

\* a construction rejected for its negative dividend alone
C7_Witness ==
    /\ lastCall.via = "new"
    /\ lastCall.out = "InvalidParameter"
    /\ pre.dividend < 0
    /\ OptionInvariant([pre EXCEPT !.dividend = 0])
    /\ ~alive

\* the field a mutator names
FieldOf(op) ==
    CASE op = "setSpot" -> "spot"
      [] op = "setRate" -> "rate"
      [] op = "setVolatility" -> "volatility"
      [] op = "setDividend" -> "dividend"
      [] op = "setExpiry" -> "expiry"
      [] op = "setPricingEngine" -> "engine"

Answer(q, via, o) ==
    LET r == IF via = "option"
             THEN Run(NewFrame(OptionListing(o.class, q), NoEngine), o)
             ELSE Run(NewFrame(EngineListing(via, q), via), o)
    IN [out |-> r.f.out, ret |-> r.f.ret]

\* C22: the analytic engine gives an AmericanOption no early-exercise
\* credit: for identical parameters its price and Greeks for an
\* AmericanOption equal those for a EuropeanOption, and the call succeeds
\* rather than failing.
C22_AnalyticIgnoresVariant ==
    (/\ lastCall.op \in Queries
     /\ pre.class = "American"
     /\ \/ lastCall.via = "BlackScholes"
        \/ lastCall.via = "option" /\ pre.engine = "BlackScholes")
        => LET european == Answer(lastCall.op, lastCall.via,
                                  [pre EXCEPT !.class = "European"])
           IN /\ lastCall.out = european.out
              /\ ret = european.ret
              /\ (lastCall.op = "price" /\ OptionInvariant(pre))
                    => lastCall.out = "ok"

\* delta() of a valid AmericanOption with the analytic engine attached has
\* returned
C22_Witness ==
    /\ lastCall = [op |-> "delta", via |-> "option", arg |-> 0, out |-> "ok"]
    /\ pre.class = "American"
    /\ pre.engine = "BlackScholes"
    /\ OptionInvariant(pre)

-----------------------------------------------------------------------------
(* The lattice specification: one caller, one valid Option with the        *)
(* BinomialTreeEngine attached, the engine's prices computed               *)

MaxSteps == 2

LatticeSpots == {95 * Scale, 100 * Scale, 105 * Scale}
LatticeExpiries == {30, 90}
LatticeVolatilities == {2000, 3000}

InitLattice ==
    /\ alive = TRUE
    /\ \E class \in Classes, type \in Types, spot \in LatticeSpots,
          expiry \in LatticeExpiries, volatility \in LatticeVolatilities :
            LET r == OptionCtor(class, type, 100 * Scale, expiry, spot, 500,
                                volatility, 0)
            IN /\ r.out = "ok"
               /\ option = setPricingEngine(r.o, "Binomial")
    /\ lastCall = NoCall
    /\ pre = option
    /\ ret = NoValue
    /\ unrestored = 0
    /\ \E num_steps \in 1 .. MaxSteps, use_bbs \in BOOLEAN :
            /\ BinomialTreeEngine(num_steps, use_bbs).out = "ok"
            /\ binomial = BinomialTreeEngine(num_steps, use_bbs).e
    /\ configured = binomial
    /\ monteCarlo = MonteCarloEngine
    /\ priced = NotPriced
    /\ callers = NoCallers

NextLattice ==
    \/ \E spot \in LatticeSpots : SetSpot(spot)
    \/ \E volatility \in LatticeVolatilities : SetVolatility(volatility)
    \/ \E expiry \in LatticeExpiries : SetExpiry(expiry)
    \/ \E q \in Queries : OptionQuery(q)
    \/ \E q \in Queries : EngineQuery("Binomial", q)

SpecLattice == InitLattice /\ [][NextLattice]_vars

\* what engine.calculateX(option) returns for the Option o: the outcome and
\* the value
EngineAnswer(q, o) ==
    LET r == Run(NewFrame(EngineListing(o.engine, q), o.engine), o)
    IN [out |-> r.f.out,
        value |-> IF r.f.out = "ok" THEN Value(r.f.ret, binomial) ELSE NaN]

\* C5: a Greek query on an Option with an engine attached returns exactly
\* what the attached engine's calculateDelta, calculateGamma,
\* calculateTheta, calculateVega or calculateRho returns for that Option.
C5_OptionGreekIsEngineGreek ==
    (lastCall.via = "option" /\ lastCall.op \in Greeks /\ pre.engine # NoEngine)
        => /\ lastCall.out = EngineAnswer(lastCall.op, pre).out
           /\ lastCall.out = "ok" =>
                Value(ret, binomial) = EngineAnswer(lastCall.op, pre).value

-----------------------------------------------------------------------------
(* Concurrent queries: the callers query one Option, a statement at a time *)

\* the Options of the concurrent specifications: valid, an engine attached
SharedOption(class, engine) ==
    setPricingEngine(
        OptionCtor(class, "Call", 100 * Scale, 30, 100 * Scale, 500, 2000, 0).o,
        engine)

InitQueries ==
    /\ alive = TRUE
    /\ \E class \in Classes, engine \in Engines :
            option = SharedOption(class, engine)
    /\ lastCall = NoCall
    /\ pre = option
    /\ ret = NoValue
    /\ unrestored = 0
    /\ binomial = DefaultBinomial
    /\ configured = binomial
    /\ monteCarlo = MonteCarloEngine
    /\ priced = NotPriced
    /\ callers = NoCallers

\* caller c calls option.q() (via = "option") or engine.calculateQ(option)
BeginQuery(c, q, via) ==
    /\ callers[c].call = Idle
    /\ callers[c].made < MaxCalls
    /\ via \in {"option", option.engine}
    /\ callers' = [callers EXCEPT ![c] =
            [call |-> [q |-> q, via |-> via] @@
                      NewFrame(IF via = "option"
                               THEN OptionListing(option.class, q)
                               ELSE EngineListing(via, q),
                               IF via = "option" THEN NoEngine ELSE via),
             made |-> @.made + 1]]
    /\ pre' = IF Quiescent THEN option ELSE pre
    /\ UNCHANGED <<alive, option, lastCall, ret, unrestored, binomial,
                   configured, monteCarlo, priced>>

\* the next statement of caller c's call
StepQuery(c) ==
    /\ callers[c].call # Idle
    /\ callers[c].call.out = "running"
    /\ LET r == Step(callers[c].call, option)
       IN /\ option' = r.o
          /\ callers' = [callers EXCEPT ![c].call = r.f]
    /\ UNCHANGED <<alive, lastCall, pre, ret, unrestored, binomial,
                   configured, monteCarlo, priced>>

\* caller c's call returns or throws
ReturnQuery(c) ==
    /\ callers[c].call # Idle
    /\ callers[c].call.out # "running"
    /\ lastCall' = [op |-> callers[c].call.q, via |-> callers[c].call.via,
                    arg |-> 0, out |-> callers[c].call.out]
    /\ ret' = callers[c].call.ret
    /\ callers' = [callers EXCEPT ![c].call = Idle]
    /\ UNCHANGED <<alive, option, pre, unrestored, binomial, configured,
                   monteCarlo, priced>>

NextQueries ==
    \/ \E c \in Callers, q \in Queries, via \in {"option"} \cup Engines :
            BeginQuery(c, q, via)
    \/ \E c \in Callers : StepQuery(c)
    \/ \E c \in Callers : ReturnQuery(c)

SpecQueries == InitQueries /\ [][NextQueries]_vars

\* the parameters a call's price calculations read when the call runs alone
\* on the Option as persisted: the persisted parameters and the call's own
\* bumps of them
OwnReads(call) ==
    LET solo == Run(NewFrame(call.prog, call.eng), pre).f.evals
    IN {Params(pre)} \cup {solo[i] : i \in DOMAIN solo}

\* C8: of two queries running concurrently against one Option, every tree
\* or simulation run of a query uses the Option's persisted parameters or
\* that query's own bump of them, never the other's bump; and once both
\* have returned the Option's parameters equal their original values.
C8_ConcurrentQueriesIsolated ==
    /\ \A c \in Callers :
          callers[c].call # Idle =>
              \A i \in DOMAIN callers[c].call.evals :
                  callers[c].call.evals[i] \in OwnReads(callers[c].call)
    /\ (Quiescent /\ lastCall.op \in Queries) => option = pre

-----------------------------------------------------------------------------
(* A shared BinomialTreeEngine: the callers price through one engine, a    *)
(* read or write of num_steps_ at a time                                   *)

InitSharedLattice ==
    /\ alive = TRUE
    /\ \E class \in Classes : option = SharedOption(class, "Binomial")
    /\ lastCall = NoCall
    /\ pre = option
    /\ ret = NoValue
    /\ unrestored = 0
    /\ \E num_steps \in 1 .. MaxSteps, use_bbs \in BOOLEAN :
            /\ BinomialTreeEngine(num_steps, use_bbs).out = "ok"
            /\ binomial = BinomialTreeEngine(num_steps, use_bbs).e
    /\ configured = binomial
    /\ monteCarlo = MonteCarloEngine
    /\ priced = NotPriced
    /\ callers = NoCallers

\* caller c's call is at the statement pc
At(c, pc) == callers[c].call # Idle /\ callers[c].call.pc = pc

\* caller c's call moves on with the locals in call
Goto(c, call) ==
    /\ callers' = [callers EXCEPT ![c].call = call]
    /\ UNCHANGED <<alive, option, lastCall, pre, ret, unrestored, configured,
                   monteCarlo, priced>>

\* caller c calls engine.calculate(option)
Calculate(c) ==
    /\ callers[c].call = Idle
    /\ callers[c].made < MaxCalls
    /\ callers' = [callers EXCEPT ![c] =
            [call |-> [out |-> "running", pc |-> "calculate", pass |-> 1,
                       steps |-> 0, original_steps |-> 0, built |-> 0,
                       valued |-> 0],
             made |-> @.made + 1]]
    /\ UNCHANGED <<alive, option, lastCall, pre, ret, unrestored, binomial,
                   configured, monteCarlo, priced>>

\* calculate: the argument of calculateWithParameters(option, num_steps_)
ReadSteps(c) ==
    /\ At(c, "calculate")
    /\ Goto(c, [callers[c].call EXCEPT !.steps = binomial.num_steps_,
                                       !.pc = "save"])
    /\ UNCHANGED binomial

\* calculateWithParameters: size_t original_steps = num_steps_
SaveSteps(c) ==
    /\ At(c, "save")
    /\ Goto(c, [callers[c].call EXCEPT !.original_steps = binomial.num_steps_,
                                       !.pc = "write"])
    /\ UNCHANGED binomial

\* calculateWithParameters: num_steps_ = steps
WriteSteps(c) ==
    /\ At(c, "write")
    /\ binomial' = [binomial EXCEPT !.num_steps_ = callers[c].call.steps]
    /\ Goto(c, [callers[c].call EXCEPT !.pc = "build"])

\* calculateWithParameters: buildPriceTree(option), a tree of num_steps_ steps
BuildPriceTree(c) ==
    /\ At(c, "build")
    /\ Goto(c, [callers[c].call EXCEPT !.built = binomial.num_steps_,
                                       !.pc = "values"])
    /\ UNCHANGED binomial

\* calculateWithParameters: calculateOptionValues(...), over num_steps_ steps
CalculateOptionValues(c) ==
    /\ At(c, "values")
    /\ Goto(c, [callers[c].call EXCEPT !.valued = binomial.num_steps_,
                                       !.pc = "restore"])
    /\ UNCHANGED binomial

\* calculateWithParameters: num_steps_ = original_steps, and the return
RestoreSteps(c) ==
    /\ At(c, "restore")
    /\ binomial' = [binomial EXCEPT !.num_steps_ = callers[c].call.original_steps]
    /\ Goto(c, [callers[c].call EXCEPT
                    !.pc = IF callers[c].call.pass = 1 THEN "bbs" ELSE "return"])

\* calculate: if (use_bbs_) applyBBSExtrapolation, which reads
\* double_steps = 2 * num_steps_ and calls calculateWithParameters again
ApplyBBS(c) ==
    /\ At(c, "bbs")
    /\ Goto(c, IF binomial.use_bbs_
               THEN [callers[c].call EXCEPT !.steps = 2 * binomial.num_steps_,
                                            !.pass = 2, !.pc = "save"]
               ELSE [callers[c].call EXCEPT !.pc = "return"])
    /\ UNCHANGED binomial

\* calculate returns
ReturnCalculate(c) ==
    /\ At(c, "return")
    /\ callers' = [callers EXCEPT ![c].call = Idle]
    /\ lastCall' = [op |-> "price", via |-> "Binomial", arg |-> 0, out |-> "ok"]
    /\ UNCHANGED <<alive, option, pre, ret, unrestored, binomial, configured,
                   monteCarlo, priced>>

NextSharedLattice ==
    \E c \in Callers :
        \/ Calculate(c)
        \/ ReadSteps(c)
        \/ SaveSteps(c)
        \/ WriteSteps(c)
        \/ BuildPriceTree(c)
        \/ CalculateOptionValues(c)
        \/ RestoreSteps(c)
        \/ ApplyBBS(c)
        \/ ReturnCalculate(c)

SpecSharedLattice == InitSharedLattice /\ [][NextSharedLattice]_vars

\* the steps of the tree of a pass: N, and 2N for the extrapolation pass
PassSteps(pass) ==
    IF pass = 1 THEN configured.num_steps_ ELSE 2 * configured.num_steps_

\* C9: of the callers pricing concurrently through one lattice engine
\* configured with N steps, every tree built has exactly N steps (2N in the
\* extrapolation pass), no call observing a step count another call wrote,
\* and num_steps_ is N whenever no call is in flight.
C9_SharedLatticeStepCount ==
    /\ \A c \in Callers :
          /\ (At(c, "values") \/ At(c, "restore")) =>
                callers[c].call.built = PassSteps(callers[c].call.pass)
          /\ At(c, "restore") =>
                callers[c].call.valued = PassSteps(callers[c].call.pass)
    /\ Quiescent => binomial.num_steps_ = configured.num_steps_

-----------------------------------------------------------------------------
(* A shared MonteCarloEngine: each caller prices its own Option through    *)
(* one engine and then asks the engine for the confidence interval         *)

\* caller c's Option
CallerOption(c) ==
    [SharedOption("European", "MonteCarlo") EXCEPT !.spot = (100 + c) * Scale]

InitSharedMonteCarlo ==
    /\ alive = TRUE
    /\ option = SharedOption("European", "MonteCarlo")
    /\ lastCall = NoCall
    /\ pre = option
    /\ ret = NoValue
    /\ unrestored = 0
    /\ binomial = DefaultBinomial
    /\ configured = binomial
    /\ monteCarlo = MonteCarloEngine
    /\ priced = NotPriced
    /\ callers = NoCallers

\* caller c's call moves on with the locals in call
GotoMonteCarlo(c, call) ==
    /\ callers' = [callers EXCEPT ![c].call = call]
    /\ UNCHANGED <<alive, option, lastCall, pre, ret, unrestored, binomial,
                   configured, priced>>

\* caller c calls option.price() on its Option
Price(c) ==
    /\ callers[c].call = Idle
    /\ callers[c].made < MaxCalls
    /\ callers' = [callers EXCEPT ![c] =
            [call |-> [out |-> "running", pc |-> "simulate",
                       o |-> CallerOption(c), mean |-> N(0), stderr |-> N(0),
                       margin |-> N(0), interval |-> <<>>],
             made |-> @.made + 1]]
    /\ UNCHANGED <<alive, option, lastCall, pre, ret, unrestored, binomial,
                   configured, monteCarlo, priced>>

\* calculate: the batches run and are joined; mean and stderr of the run
Simulate(c) ==
    /\ At(c, "simulate")
    /\ GotoMonteCarlo(c, [callers[c].call EXCEPT
                            !.mean = RunMean(callers[c].call.o),
                            !.stderr = RunStderr(callers[c].call.o),
                            !.pc = "store_mean"])
    /\ UNCHANGED monteCarlo

\* calculate: last_mean_ = mean
StoreMean(c) ==
    /\ At(c, "store_mean")
    /\ monteCarlo' = [monteCarlo EXCEPT !.last_mean_ = callers[c].call.mean]
    /\ GotoMonteCarlo(c, [callers[c].call EXCEPT !.pc = "store_stderr"])

\* calculate: last_stderr_ = stderr, and the return of the price
StoreStderr(c) ==
    /\ At(c, "store_stderr")
    /\ monteCarlo' = [monteCarlo EXCEPT !.last_stderr_ = callers[c].call.stderr]
    /\ GotoMonteCarlo(c, [callers[c].call EXCEPT !.pc = "priced"])

\* getConfidenceInterval: margin = z_score * last_stderr_
ReadStderr(c) ==
    /\ At(c, "priced")
    /\ GotoMonteCarlo(c, [callers[c].call EXCEPT
                            !.margin = monteCarlo.last_stderr_,
                            !.pc = "margin"])
    /\ UNCHANGED monteCarlo

\* getConfidenceInterval: discounted_mean = last_mean_ * discount, and the
\* interval returned: its centre and its half-width, by the statistics
\* they are computed from
ReadMean(c) ==
    /\ At(c, "margin")
    /\ GotoMonteCarlo(c, [callers[c].call EXCEPT
                            !.interval = [mean |-> monteCarlo.last_mean_,
                                          stderr |-> callers[c].call.margin],
                            !.pc = "interval"])
    /\ UNCHANGED monteCarlo

\* the caller has its interval
ReturnInterval(c) ==
    /\ At(c, "interval")
    /\ callers' = [callers EXCEPT ![c].call = Idle]
    /\ lastCall' = [op |-> "getConfidenceInterval", via |-> "MonteCarlo",
                    arg |-> 0, out |-> "ok"]
    /\ UNCHANGED <<alive, option, pre, ret, unrestored, binomial, configured,
                   monteCarlo, priced>>

NextSharedMonteCarlo ==
    \E c \in Callers :
        \/ Price(c)
        \/ Simulate(c)
        \/ StoreMean(c)
        \/ StoreStderr(c)
        \/ ReadStderr(c)
        \/ ReadMean(c)
        \/ ReturnInterval(c)

SpecSharedMonteCarlo == InitSharedMonteCarlo /\ [][NextSharedMonteCarlo]_vars

\* C10: of the callers sharing one Monte Carlo engine, the confidence
\* interval each obtains after its own price() is computed from the
\* statistics of its own simulation run, never from another caller's.
C10_IntervalFromOwnRun ==
    \A c \in Callers :
        At(c, "interval") =>
            callers[c].call.interval =
                [mean |-> RunMean(callers[c].call.o),
                 stderr |-> RunStderr(callers[c].call.o)]

-----------------------------------------------------------------------------
(* The Monte Carlo specification: one caller, one valid Option with the    *)
(* MonteCarloEngine attached, the engine's statistics kept                 *)

MonteCarloSpots == {95 * Scale, 100 * Scale, 105 * Scale}

\* another Option, which the engine has not priced
OtherOption(o) == [o EXCEPT !.spot = 2 * o.spot, !.rate = 2 * o.rate]

InitMonteCarlo ==
    /\ alive = TRUE
    /\ \E class \in Classes, type \in Types, spot \in MonteCarloSpots :
            LET r == OptionCtor(class, type, 100 * Scale, 30, spot, 500, 2000, 0)
            IN /\ r.out = "ok"
               /\ option = setPricingEngine(r.o, "MonteCarlo")
    /\ lastCall = NoCall
    /\ pre = option
    /\ ret = NoValue
    /\ unrestored = 0
    /\ binomial = DefaultBinomial
    /\ configured = binomial
    /\ monteCarlo = MonteCarloEngine
    /\ priced = NotPriced
    /\ callers = NoCallers

\* option.q() (via = "option") or engine.calculateQ(option) through the
\* MonteCarloEngine: every calculate() of the call stores its statistics
MonteCarloQuery(q, via) ==
    /\ alive
    /\ unrestored < MaxUnrestored
    /\ LET r == Run(NewFrame(IF via = "option"
                             THEN OptionListing(option.class, q)
                             ELSE EngineListing(via, q),
                             IF via = "option" THEN NoEngine ELSE via),
                    option)
           engine == IF via = "option" THEN option.engine ELSE via
       IN /\ FinishOption(r, q, via)
          /\ monteCarlo' = AfterCalls(monteCarlo, engine, r.f.evals)
          /\ priced' = IF q = "price" /\ engine = "MonteCarlo" /\ r.f.out = "ok"
                       THEN Params(option)
                       ELSE priced
    /\ UNCHANGED <<binomial, configured, callers>>

\* MonteCarloEngine::getConfidenceInterval(o): the interval
\* (last_mean_ -+ 1.96 * last_stderr_) * exp(-rate * expiry), by the
\* statistics and the discount it is computed from
getConfidenceInterval(mc, o) ==
    [out |-> "ok",
     interval |-> [mean |-> mc.last_mean_, stderr |-> mc.last_stderr_,
                   rate |-> o.rate, expiry |-> o.expiry]]

\* engine.getConfidenceInterval(option), or with another Option (arg = 1)
GetConfidenceInterval(other) ==
    /\ alive
    /\ LET o == IF other THEN OtherOption(option) ELSE option
           r == getConfidenceInterval(monteCarlo, o)
       IN /\ lastCall' = [op |-> "getConfidenceInterval", via |-> "MonteCarlo",
                          arg |-> IF other THEN 1 ELSE 0, out |-> r.out]
          /\ ret' = r.interval
    /\ pre' = option
    /\ UNCHANGED <<alive, option, unrestored, binomial, configured, monteCarlo,
                   priced, callers>>

NextMonteCarlo ==
    \/ \E q \in Queries, via \in {"option", "MonteCarlo"} : MonteCarloQuery(q, via)
    \/ \E other \in BOOLEAN : GetConfidenceInterval(other)

SpecMonteCarlo == InitMonteCarlo /\ [][NextMonteCarlo]_vars

\* C11: after any sequence of price and Greek queries on an Option through
\* a Monte Carlo engine, the confidence interval the engine exposes for
\* that Option is the one of the most recent price() at the persisted
\* parameters, centred on the price it returned; the bumped evaluations of
\* the Greek queries do not replace it.
C11_IntervalOfLastPrice ==
    (lastCall.op = "getConfidenceInterval" /\ lastCall.arg = 0
        /\ priced # NotPriced)
        => ret = [mean |-> RunMean(priced), stderr |-> RunStderr(priced),
                  rate |-> priced.rate, expiry |-> priced.expiry]

\* C12: a confidence-interval query before any price() on the engine, or
\* for an Option other than the one most recently priced, is rejected or
\* flagged as stale, never answered with an ordinary interval.
C12_StaleIntervalRejected ==
    (lastCall.op = "getConfidenceInterval"
        /\ (priced = NotPriced \/ lastCall.arg = 1))
        => lastCall.out # "ok"

-----------------------------------------------------------------------------
(* MonteCarloEngine::calculate: the batches                                *)

\* std::mt19937 rng(seed): a generator is its seed and how far it has been
\* advanced; the draw at a position of a generator is a fixed number
mt19937(seed) == [seed |-> seed, pos |-> 1]

\* the loop of generatePath: each step draws z = normal(rng) and negates it
\* for the antithetic path
RECURSIVE PathDraws(_, _, _, _)
PathDraws(rng, antithetic, num_steps, zs) ==
    IF Len(zs) = num_steps THEN [zs |-> zs, rng |-> rng]
    ELSE PathDraws([rng EXCEPT !.pos = @ + 1], antithetic, num_steps,
                   Append(zs, [seed |-> rng.seed, pos |-> rng.pos,
                               negated |-> antithetic]))

\* what generatePath reads of the Option: getSpot, getRate, getDividend,
\* getVolatility, getExpiry
PathReads(o) ==
    [spot |-> o.spot, rate |-> o.rate, dividend |-> o.dividend,
     volatility |-> o.volatility, expiry |-> o.expiry]

\* MonteCarloEngine::generatePath: the path (a function of the parameters
\* read and the draws), the draws, and the generator as the path left it
generatePath(o, rng, antithetic, num_steps) ==
    LET d == PathDraws(rng, antithetic, num_steps, <<>>)
    IN [path |-> <<"path", PathReads(o), d.zs>>, zs |-> d.zs, rng |-> d.rng]

\* MonteCarloEngine::calculatePayoff(option, path.back()): a function of
\* getType, getStrike and the last price of the path
MonteCarloPayoff(o, path) == <<"payoff", o.type, o.strike, <<"back", path>> >>

\* the loop of simulateBatch: the samples in the order they are added to
\* sum_payoffs and sum_squared_payoffs
RECURSIVE BatchPaths(_, _, _, _, _)
BatchPaths(o, rng, num_paths, mc, samples) ==
    IF Len(samples) = num_paths THEN [samples |-> samples, rng |-> rng]
    ELSE LET p == generatePath(o, rng, FALSE, mc.num_steps_)
             a == generatePath(o, p.rng, TRUE, mc.num_steps_)
         IN IF mc.use_antithetic_
            THEN BatchPaths(o, a.rng, num_paths, mc,
                    Append(samples,
                        [primary |-> p.zs, mirror |-> a.zs,
                         payoff |-> <<"/", <<"+", MonteCarloPayoff(o, p.path),
                                                  MonteCarloPayoff(o, a.path)>>,
                                           N(2 * Scale)>>]))
            ELSE BatchPaths(o, p.rng, num_paths, mc,
                    Append(samples,
                        [primary |-> p.zs, mirror |-> <<>>,
                         payoff |-> MonteCarloPayoff(o, p.path)]))

\* MonteCarloEngine::simulateBatch
simulateBatch(o, seed, num_paths, mc) ==
    BatchPaths(o, mt19937(seed), num_paths, mc, <<>>)

\* the seed of batch i: static_cast<unsigned int>(i), always the same
BatchSeed_Same(i) == 0

\* the seed of batch i: static_cast<unsigned int>(i)
BatchSeed(i) == i

\* the future collected next: any finished one not yet collected
NextFuture_AnyFinished(call) ==
    LET ready == {k \in DOMAIN call.futures :
                    /\ call.futures[k].state = "finished"
                    /\ \A j \in DOMAIN call.collected : call.collected[j] # k}
    IN IF ready # {} THEN CHOOSE k \in ready : \A j \in ready : j <= k
       ELSE CHOOSE k \in DOMAIN call.futures :
                \A j \in DOMAIN call.collected : call.collected[j] # k

\* the future collected next: for (auto& future : futures), in the order
\* of the vector
NextFuture(call) == Len(call.collected) + 1

\* future.get() returns at once
FutureReady_NoWait(future) == TRUE

\* future.get() returns when the batch has finished
FutureReady(future) == future.state = "finished"

\* the engine as constructed: MonteCarloEngine(num_paths, num_steps,
\* use_antithetic, num_threads) with num_threads > 0
MonteCarloEngineWith(num_paths, num_steps, use_antithetic, num_threads) ==
    [num_paths_ |-> num_paths, num_steps_ |-> num_steps,
     use_antithetic_ |-> use_antithetic, num_threads_ |-> num_threads]
    @@ MonteCarloEngine

\* MonteCarloEngine::getNumPaths
getNumPaths(mc) == mc.num_paths_

MaxPaths == 3
MaxThreads == 2
MaxPathSteps == 2

\* the price() calls made one after the other
MaxPrices == 2

\* the thread that calls price(); the batches run on threads of their own
MainThread == CHOOSE c \in Callers : \A d \in Callers : c <= d

InitBatches ==
    /\ alive = TRUE
    /\ \E class \in Classes, type \in Types :
            option = setPricingEngine(
                        OptionCtor(class, type, 100 * Scale, 30, 100 * Scale,
                                   500, 2000, 0).o,
                        "MonteCarlo")
    /\ lastCall = NoCall
    /\ pre = option
    /\ ret = NoValue
    /\ unrestored = 0
    /\ binomial = DefaultBinomial
    /\ configured = binomial
    /\ \E num_paths \in 1 .. MaxPaths, num_steps \in 1 .. MaxPathSteps,
          use_antithetic \in BOOLEAN, num_threads \in 1 .. MaxThreads :
            monteCarlo = MonteCarloEngineWith(num_paths, num_steps,
                                              use_antithetic, num_threads)
    /\ priced = NotPriced
    /\ callers = NoCallers

\* caller c's call moves on with the locals in call
GotoBatches(c, call) ==
    /\ callers' = [callers EXCEPT ![c].call = call]
    /\ UNCHANGED <<alive, option, lastCall, pre, ret, unrestored, binomial,
                   configured, priced>>

\* caller c calls option.price(): calculate splits the paths,
\* paths_per_thread = num_paths_ / num_threads_
SplitPaths(c) ==
    /\ callers[c].call = Idle
    /\ callers[c].made < MaxPrices
    /\ callers' = [callers EXCEPT ![c] =
            [call |-> [out |-> "running", pc |-> "launch",
                       paths_per_thread |->
                            monteCarlo.num_paths_ \div monteCarlo.num_threads_,
                       i |-> 0, futures |-> <<>>, collected |-> <<>>,
                       sums |-> <<>>, total_paths |-> 0, mean |-> N(0),
                       stderr |-> N(0), price |-> N(0)],
             made |-> @.made + 1]]
    /\ UNCHANGED <<alive, option, lastCall, pre, ret, unrestored, binomial,
                   configured, monteCarlo, priced>>

\* calculate: futures.push_back(std::async(std::launch::async,
\* &simulateBatch, this, option, i, paths_per_thread)), while i < num_threads_
LaunchBatch(c) ==
    /\ At(c, "launch")
    /\ callers[c].call.i < monteCarlo.num_threads_
    /\ GotoBatches(c, [callers[c].call EXCEPT
            !.futures = Append(@, [seed |-> BatchSeed(callers[c].call.i),
                                   num_paths |-> callers[c].call.paths_per_thread,
                                   state |-> "running", result |-> <<>>]),
            !.i = @ + 1,
            !.pc = IF callers[c].call.i + 1 < monteCarlo.num_threads_
                   THEN "launch" ELSE "collect"])
    /\ UNCHANGED monteCarlo

\* a batch of caller c's call runs on its thread: simulateBatch
RunBatch(c, k) ==
    /\ callers[c].call # Idle
    /\ k \in DOMAIN callers[c].call.futures
    /\ callers[c].call.futures[k].state = "running"
    /\ GotoBatches(c, [callers[c].call EXCEPT
            !.futures[k].state = "finished",
            !.futures[k].result =
                simulateBatch(option, callers[c].call.futures[k].seed,
                              callers[c].call.futures[k].num_paths,
                              monteCarlo).samples])
    /\ UNCHANGED monteCarlo

\* calculate: for (auto& future : futures) { result = future.get();
\* sum_payoffs += result.first; sum_squared_payoffs += result.second; }
CollectBatch(c) ==
    /\ At(c, "collect")
    /\ LET k == NextFuture(callers[c].call)
       IN /\ FutureReady(callers[c].call.futures[k])
          /\ GotoBatches(c, [callers[c].call EXCEPT
                !.collected = Append(@, k),
                !.sums = Append(@, callers[c].call.futures[k].result),
                !.pc = IF Len(callers[c].call.collected) + 1
                            < Len(callers[c].call.futures)
                       THEN "collect" ELSE "reduce"])
    /\ UNCHANGED monteCarlo

\* calculate: total_paths, mean, variance and stderr of the sums collected;
\* last_mean_ = mean; last_stderr_ = stderr; the discounted mean is returned
Reduce(c) ==
    /\ At(c, "reduce")
    /\ LET total_paths == callers[c].call.paths_per_thread * monteCarlo.num_threads_
           mean == <<"mean", callers[c].call.sums, total_paths>>
           stderr == <<"stderr", callers[c].call.sums, total_paths>>
       IN /\ monteCarlo' = [monteCarlo EXCEPT !.last_mean_ = mean,
                                              !.last_stderr_ = stderr]
          /\ GotoBatches(c, [callers[c].call EXCEPT
                !.total_paths = total_paths, !.mean = mean, !.stderr = stderr,
                !.price = <<"*", mean, <<"exp", option.rate, option.expiry>> >>,
                !.pc = "done"])

\* price() returns to caller c
ReturnPrice(c) ==
    /\ At(c, "done")
    /\ callers' = [callers EXCEPT ![c].call = Idle]
    /\ lastCall' = [op |-> "price", via |-> "MonteCarlo", arg |-> 0, out |-> "ok"]
    /\ ret' = callers[c].call.price
    /\ priced' = Params(option)
    /\ UNCHANGED <<alive, option, pre, unrestored, binomial, configured,
                   monteCarlo>>

NextBatches ==
    LET c == MainThread
    IN  \/ SplitPaths(c)
        \/ LaunchBatch(c)
        \/ \E k \in 1 .. MaxThreads + 1 : RunBatch(c, k)
        \/ CollectBatch(c)
        \/ Reduce(c)
        \/ ReturnPrice(c)

SpecBatches == InitBatches /\ [][NextBatches]_vars

\* the calls in progress
Calls == {callers[c].call : c \in {c \in Callers : callers[c].call # Idle}}

\* C13: a Monte Carlo price() call starts exactly worker_count batches and
\* returns only after every one has finished; each batch's pair of sums is
\* added into the reduction exactly once, and the mean, the variance and
\* the cached statistics are computed only after the last batch has been
\* collected.
C13_BatchesJoinedOnce ==
    \A call \in Calls :
        /\ call.pc = "launch" => Len(call.futures) = call.i
        /\ call.pc # "launch" => Len(call.futures) = monteCarlo.num_threads_
        /\ call.pc \in {"reduce", "done"} =>
              /\ \A k \in DOMAIN call.futures :
                    call.futures[k].state = "finished"
              /\ call.collected = [k \in DOMAIN call.futures |-> k]
              /\ call.sums = [k \in DOMAIN call.futures |-> call.futures[k].result]
        /\ call.pc # "done" => call.mean = N(0) /\ call.stderr = N(0)

\* a call has returned the price of two batches of at least one path
C13_Witness ==
    \E call \in Calls :
        /\ call.pc = "done"
        /\ Len(call.futures) = 2
        /\ call.paths_per_thread >= 1

\* the draws a batch consumed, in the order it consumed them
RECURSIVE BatchDraws(_)
BatchDraws(samples) ==
    IF samples = <<>> THEN <<>>
    ELSE Head(samples).primary \o Head(samples).mirror \o BatchDraws(Tail(samples))

\* C14: within one Monte Carlo price() call every batch draws from its own
\* generator, which no other batch reads or advances: batch i is seeded
\* with its index i, the seeds are pairwise distinct, and the draws of a
\* batch are the first draws of its own generator, none skipped.
C14_BatchGeneratorsPrivate ==
    \A call \in Calls :
        /\ \A k \in DOMAIN call.futures : call.futures[k].seed = k - 1
        /\ \A k1, k2 \in DOMAIN call.futures :
              k1 # k2 => call.futures[k1].seed # call.futures[k2].seed
        /\ \A k \in DOMAIN call.futures :
              call.futures[k].state = "finished" =>
                 LET draws == BatchDraws(call.futures[k].result)
                 IN \A n \in DOMAIN draws :
                       /\ draws[n].seed = call.futures[k].seed
                       /\ draws[n].pos = n
        /\ \A k1, k2 \in DOMAIN call.futures :
              (k1 # k2 /\ call.futures[k1].state = "finished"
                       /\ call.futures[k2].state = "finished") =>
                 LET d1 == BatchDraws(call.futures[k1].result)
                     d2 == BatchDraws(call.futures[k2].result)
                 IN \A n1 \in DOMAIN d1, n2 \in DOMAIN d2 :
                       <<d1[n1].seed, d1[n1].pos>> # <<d2[n2].seed, d2[n2].pos>>

\* two batches of one call have finished, each with draws consumed
C14_Witness ==
    \E call \in Calls :
        /\ Len(call.futures) = 2
        /\ \A k \in DOMAIN call.futures :
              /\ call.futures[k].state = "finished"
              /\ BatchDraws(call.futures[k].result) # <<>>

\* C15: Monte Carlo pricing is reproducible: price() calls with equal Option
\* parameters and equal engine configuration return the same price and
\* leave the same cached statistics, whatever the order in which the
\* batches are scheduled and finish.
C15_PriceReproducible ==
    \A call \in Calls :
        (lastCall.op = "price" /\ lastCall.out = "ok") =>
            /\ call.pc = "reduce" =>
                  LET total_paths == call.paths_per_thread * monteCarlo.num_threads_
                  IN /\ monteCarlo.last_mean_ = <<"mean", call.sums, total_paths>>
                     /\ monteCarlo.last_stderr_ = <<"stderr", call.sums, total_paths>>
            /\ call.pc = "done" =>
                  /\ ret = call.price
                  /\ monteCarlo.last_mean_ = call.mean
                  /\ monteCarlo.last_stderr_ = call.stderr

\* a second call, of two batches of at least one path each, has its price
C15_Witness ==
    /\ lastCall.op = "price"
    /\ \E call \in Calls :
          /\ call.pc = "done"
          /\ Len(call.futures) = 2
          /\ call.paths_per_thread >= 1

\* C16: the number of payoff samples a Monte Carlo price() call simulates is
\* floor(requested_paths / worker_count) * worker_count, and the path count
\* the engine reports (getNumPaths) equals that effective count, also when
\* the requested count is not a multiple of the worker count.
C16_EffectivePathsReported ==
    \A call \in Calls :
        call.pc = "done" =>
            LET simulated == Len(BatchDraws(
                    [k \in DOMAIN call.sums |->
                        [primary |-> call.sums[k], mirror |-> <<>>]]))
            IN /\ simulated = (monteCarlo.num_paths_ \div monteCarlo.num_threads_)
                                * monteCarlo.num_threads_
               /\ getNumPaths(monteCarlo) = simulated

\* C17: with antithetic variates enabled, the mirror path of each simulated
\* path is built from the negation of the same normal draws the primary
\* path used (step k of the mirror uses -z_k), so each sample consumes one
\* set of draws, and the sample added to the sums is the average of the
\* two payoffs.
C17_MirrorNegatesSameDraws ==
    \A call \in Calls :
        \A k \in DOMAIN call.futures :
            (call.futures[k].state = "finished" /\ monteCarlo.use_antithetic_) =>
                \A n \in DOMAIN call.futures[k].result :
                    LET sample == call.futures[k].result[n]
                    IN /\ sample.mirror =
                            [j \in DOMAIN sample.primary |->
                                [sample.primary[j] EXCEPT !.negated = TRUE]]
                       /\ sample.payoff =
                            <<"/", <<"+", MonteCarloPayoff(option,
                                            <<"path", PathReads(option), sample.primary>>),
                                          MonteCarloPayoff(option,
                                            <<"path", PathReads(option), sample.mirror>>)>>,
                                   N(2 * Scale)>>

-----------------------------------------------------------------------------
(* The lattice engine: construction, setNumSteps, setUseBBS and the price  *)
(* of one valid Option, computed                                           *)

\* parameters of the Options priced: volatilities of 1% and 20%, dividend
\* yields of 0 and 6% (tests/test_binomial.cpp, DividendEffect)
EngineSpots == {90 * Scale, 100 * Scale}
EngineExpiries == {90}
EngineVolatilities == {100, 2000}
EngineDividends == {0, 600}

InitLatticeEngine ==
    /\ alive = TRUE
    /\ \E class \in Classes, type \in Types, spot \in EngineSpots,
          expiry \in EngineExpiries, volatility \in EngineVolatilities,
          dividend \in EngineDividends :
            LET r == OptionCtor(class, type, 100 * Scale, expiry, spot, 500,
                                volatility, dividend)
            IN /\ r.out = "ok"
               /\ option = setPricingEngine(r.o, "Binomial")
    /\ lastCall = NoCall
    /\ pre = option
    /\ ret = NoValue
    /\ unrestored = 0
    /\ \E num_steps \in 1 .. MaxSteps, use_bbs \in BOOLEAN :
            /\ BinomialTreeEngine(num_steps, use_bbs).out = "ok"
            /\ binomial = BinomialTreeEngine(num_steps, use_bbs).e
    /\ configured = binomial
    /\ monteCarlo = MonteCarloEngine
    /\ priced = NotPriced
    /\ callers = NoCallers

\* another Option of the specification: the other variant at the other spot
Another(o) ==
    [o EXCEPT !.class = CHOOSE class \in Classes : class # o.class,
              !.spot = CHOOSE spot \in EngineSpots : spot # o.spot]

\* the Option the engine worked on last, and whether the one before it was
\* another
Worked(o) ==
    [engine |-> "Binomial", last |-> Params(o),
     reused |-> priced # NotPriced /\ priced.last # Params(o)]

\* an engine call that leaves the Option alone
EngineCall(op, arg, out) ==
    /\ lastCall' = [op |-> op, via |-> "Binomial", arg |-> arg, out |-> out]
    /\ pre' = option
    /\ UNCHANGED <<alive, option, unrestored, monteCarlo, priced, callers>>

\* a new BinomialTreeEngine(num_steps, use_bbs) replaces the engine, unless
\* the constructor throws
NewBinomialTreeEngine(num_steps, use_bbs) ==
    LET r == BinomialTreeEngine(num_steps, use_bbs)
    IN /\ binomial' = IF r.out = "ok" THEN r.e ELSE binomial
       /\ configured' = binomial'
       /\ ret' = NoValue
       /\ EngineCall("BinomialTreeEngine", num_steps, r.out)

\* BinomialTreeEngine::setNumSteps
setNumSteps(e, steps) == [e EXCEPT !.num_steps_ = steps]

\* BinomialTreeEngine::setUseBBS
setUseBBS(e, use_bbs) == [e EXCEPT !.use_bbs_ = use_bbs]

\* engine.setNumSteps(steps)
SetNumSteps(steps) ==
    /\ binomial' = setNumSteps(binomial, steps)
    /\ configured' = binomial'
    /\ ret' = NoValue
    /\ EngineCall("setNumSteps", steps, "ok")

\* engine.setUseBBS(use_bbs)
SetUseBBS(use_bbs) ==
    /\ binomial' = setUseBBS(binomial, use_bbs)
    /\ configured' = binomial'
    /\ ret' = NoValue
    /\ EngineCall("setUseBBS", IF use_bbs THEN 1 ELSE 0, "ok")

\* the engine after calculateWithParameters(option, steps):
\* original_steps = num_steps_; num_steps_ = steps; ...;
\* num_steps_ = original_steps
StepsAfterPass(e, steps) ==
    LET original_steps == e.num_steps_
    IN [[e EXCEPT !.num_steps_ = steps] EXCEPT !.num_steps_ = original_steps]

\* calculate leaves the engine at the step count of its extrapolation pass
AfterCalculate_Doubled(e, o) ==
    IF e.use_bbs_ THEN [e EXCEPT !.num_steps_ = 2 * e.num_steps_] ELSE e

\* the engine e after BinomialTreeEngine::calculate(o): a pass of num_steps_
\* steps and, with extrapolation, a pass of double_steps, read from
\* num_steps_ after the first pass
AfterCalculate(e, o) ==
    LET first == StepsAfterPass(e, e.num_steps_)
    IN IF first.use_bbs_ THEN StepsAfterPass(first, 2 * first.num_steps_)
       ELSE first

\* option.price() with the lattice engine attached: the Option is valid and
\* has its engine, calculate has no throw of its own
LatticePrice ==
    /\ ret' = BinomialCalculate(binomial, option)
    /\ binomial' = AfterCalculate(binomial, option)
    /\ lastCall' = [op |-> "price", via |-> "option", arg |-> 0, out |-> "ok"]
    /\ pre' = option
    /\ priced' = Worked(option)
    /\ UNCHANGED <<alive, option, unrestored, configured, monteCarlo, callers>>

\* the engine after the calculate() calls of one Greek, one for each set of
\* parameters in evals
RECURSIVE AfterCalculates(_, _)
AfterCalculates(e, evals) ==
    IF evals = <<>> THEN e
    ELSE AfterCalculates(AfterCalculate(e, Head(evals)), Tail(evals))

\* engine.calculateDelta(option), ..., engine.calculateRho(option): the
\* bumps through the Option's setters, a calculate() at each, the restore
LatticeGreek(q) ==
    LET r == Run(NewFrame(EngineListing("Binomial", q), "Binomial"), option)
    IN /\ ret' = IF r.f.out = "ok" THEN Value(r.f.ret, binomial) ELSE NoValue
       /\ binomial' = AfterCalculates(binomial, r.f.evals)
       /\ lastCall' = [op |-> q, via |-> "Binomial", arg |-> 0, out |-> r.f.out]
       /\ option' = r.o
       /\ pre' = option
       /\ priced' = Worked(option)
       /\ UNCHANGED <<alive, unrestored, configured, monteCarlo, callers>>

\* the engine is attached to another Option: setPricingEngine(engine) on it
AttachAnother ==
    /\ option' = Another(option)
    /\ pre' = option
    /\ lastCall' = [op |-> "setPricingEngine", via |-> "setter", arg |-> 0,
                    out |-> "ok"]
    /\ ret' = NoValue
    /\ UNCHANGED <<alive, unrestored, binomial, configured, monteCarlo, priced,
                   callers>>

NextLatticeEngine ==
    \/ \E num_steps \in 0 .. MaxSteps, use_bbs \in BOOLEAN :
            NewBinomialTreeEngine(num_steps, use_bbs)
    \/ \E steps \in 0 .. MaxSteps : SetNumSteps(steps)
    \/ \E use_bbs \in BOOLEAN : SetUseBBS(use_bbs)
    \/ LatticePrice
    \/ \E q \in Greeks : LatticeGreek(q)
    \/ AttachAnother

SpecLatticeEngine == InitLatticeEngine /\ [][NextLatticeEngine]_vars

\* the step counts of the trees a calculate() of the engine e builds
Passes(e) == IF e.use_bbs_ THEN {e.num_steps_, 2 * e.num_steps_}
             ELSE {e.num_steps_}

\* the risk-neutral probability of the tree of the Option o with steps steps
Probability(o, steps) ==
    calculateParameters(o, Years(o.expiry) \div steps).p

\* C18: a lattice price() call whose risk-neutral probability
\* p = (e^((r-q)dt) - d)/(u - d) falls outside [0,1] for the given Option
\* and step count fails with InvalidParameter instead of returning a price.
C18_ProbabilityChecked ==
    (/\ lastCall.op = "price"
     /\ binomial.num_steps_ >= 1
     /\ \E steps \in Passes(binomial) :
            \/ Probability(option, steps) < 0
            \/ Probability(option, steps) > Scale)
        => lastCall.out = "InvalidParameter"

\* C19: a lattice engine's step count is at least 1 in every reachable
\* state: the constructor rejects 0 with InvalidParameter and no later
\* operation on the engine (setNumSteps included) brings it to 0.
C19_StepsPositive ==
    /\ binomial.num_steps_ >= 1
    /\ (lastCall.op = "BinomialTreeEngine" /\ lastCall.arg = 0)
            => lastCall.out = "InvalidParameter"

\* the nodes before expiry of the American tree of o with steps steps at
\* which immediate exercise exceeds the continuation value
EarlyExerciseNodes(o, steps) ==
    LET dt == Years(o.expiry) \div steps
        udp == calculateParameters(o, dt)
        df == FExp(0 - FMul(o.rate, dt))
        price_tree == buildPriceTree(o, steps)
        values == calculateOptionValues(o, price_tree, TRUE, steps)
    IN {sn \in (0 .. steps - 1) \X (0 .. steps - 1) :
          /\ sn[2] <= sn[1]
          /\ calculatePayoff(o, price_tree[getIndex(sn[1], sn[2])])
                > FMul(df, FMul(udp.p, values[getIndex(sn[1] + 1, sn[2] + 1)])
                           + FMul(Scale - udp.p, values[getIndex(sn[1] + 1, sn[2])]))}

\* C20: for identical parameters and the same lattice engine (with or
\* without extrapolation), AmericanOption.price() >= EuropeanOption.price(),
\* and the American price is strictly greater whenever immediate exercise
\* exceeds the continuation value at some node of the tree.
C20_AmericanAtLeastEuropean ==
    (/\ lastCall.op = "price"
     /\ option.class = "American"
     /\ binomial.num_steps_ >= 1)
        => LET european == BinomialCalculate(binomial,
                                [option EXCEPT !.class = "European"])
           IN /\ ret >= european
              /\ (\E steps \in Passes(binomial) :
                        EarlyExerciseNodes(option, steps) # {})
                    => ret > european

\* the value of the node (step, node) of the tree of o with steps steps, by
\* the recursion of the backward induction, no array
RECURSIVE NodeValue(_, _, _, _, _, _)
NodeValue(o, steps, udp, df, step, node) ==
    LET price == FMul(FMul(o.spot, FPow(udp.u, node)), FPow(udp.d, step - node))
    IN IF step = steps THEN calculatePayoff(o, price)
       ELSE LET continuation ==
                    FMul(df, FMul(udp.p, NodeValue(o, steps, udp, df, step + 1, node + 1))
                             + FMul(Scale - udp.p, NodeValue(o, steps, udp, df, step + 1, node)))
            IN IF o.class = "American"
               THEN FMax(continuation, calculatePayoff(o, price))
               ELSE continuation

\* V(steps): the root value of the tree of o with exactly steps steps
RootValue(o, steps) ==
    LET dt == Years(o.expiry) \div steps
    IN NodeValue(o, steps, calculateParameters(o, dt),
                 FExp(0 - FMul(o.rate, dt)), 0, 0)

\* C21: for a lattice engine configured with N steps, price() returns the
\* root value V(N) of the N-step tree when extrapolation is off and
\* 2 V(2N) - V(N) when it is on, V(N) and V(2N) the root values of trees
\* with exactly N and exactly 2N steps built from the Option's parameters.
C21_PriceIsRootValue ==
    (lastCall.op = "price" /\ configured.num_steps_ >= 1)
        => ret = IF configured.use_bbs_
                 THEN FSub(FMul(2 * Scale,
                                RootValue(option, 2 * configured.num_steps_)),
                           RootValue(option, configured.num_steps_))
                 ELSE RootValue(option, configured.num_steps_)

\* an American put in the money priced with extrapolation on trees of two and
\* four steps
C21_Witness ==
    /\ lastCall.op = "price"
    /\ configured = [num_steps_ |-> 2, use_bbs_ |-> TRUE]
    /\ option.class = "American"
    /\ option.type = "Put"
    /\ option.spot < option.strike
    /\ ret > 0

\* C23: the Monte Carlo engine is capable of early-exercise evaluation: when
\* the Option it prices is an AmericanOption, the payoff of a path takes
\* exercise before expiry into account and is not computed from the
\* terminal price of the path alone (as the payoff of the EuropeanOption of
\* the same parameters is).
C23_EarlyExerciseInSimulation ==
    \A call \in Calls :
        \A k \in DOMAIN call.futures :
            (call.futures[k].state = "finished" /\ option.class = "American") =>
                LET european ==
                        simulateBatch([option EXCEPT !.class = "European"],
                                      call.futures[k].seed,
                                      call.futures[k].num_paths,
                                      monteCarlo).samples
                IN \A n \in DOMAIN call.futures[k].result :
                        call.futures[k].result[n].payoff # european[n].payoff

\* C25: an engine can be reused across Options without interference: for a
\* fixed engine configuration, the price an engine returns for an Option
\* depends only on that Option's parameters and variant, not on which
\* Options the engine priced or bumped earlier, and pricing leaves the
\* engine's configuration unchanged.
C25_EngineReusable ==
    /\ binomial = configured
    /\ (lastCall.op \in Queries /\ lastCall.out = "ok")
            => ret = Value(Answer(lastCall.op, lastCall.via, pre).ret, configured)

\* the engine, with extrapolation on, has priced an Option after working on
\* another
C25_Witness ==
    /\ lastCall.op = "price"
    /\ priced # NotPriced
    /\ priced.reused
    /\ configured.use_bbs_
    /\ configured.num_steps_ >= 1

\* what separates two prices in the fixed-point arithmetic of the trees
\* checked here: the truncation of exp, of p and of every product on the
\* way to the root adds up to less than this (0.2)
ParityTolerance == Scale \div 5

\* call.price() - put.price() for the European call and put with the
\* parameters of the Option just priced, the one of the two that was priced
\* taken from the call
ParityDifference ==
    LET twin(type) ==
            IF option.type = type THEN ret
            ELSE BinomialCalculate(binomial, [option EXCEPT !.type = type])
    IN FSub(twin("Call"), twin("Put"))

\* K e^(-rT)
DiscountedStrike(o) ==
    FMul(o.strike, FExp(0 - FMul(o.rate, Years(o.expiry))))

\* S e^(-qT)
DiscountedSpot(o) ==
    FMul(o.spot, FExp(0 - FMul(o.dividend, Years(o.expiry))))

\* a European Option has been priced on trees of at least one step
ParityCase ==
    /\ lastCall.op = "price"
    /\ option.class = "European"
    /\ configured.num_steps_ >= 1

-----------------------------------------------------------------------------
(* BlackScholesPricingEngine: the closed-form Greeks, computed             *)

\* the series 2 (y + y^3/3 + y^5/5 + ...) of the logarithm, y = (x-1)/(x+1)
RECURSIVE LogSeries(_, _, _, _)
LogSeries(y2, power, k, acc) ==
    IF power = 0 THEN 2 * acc
    ELSE LogSeries(y2, FMul(power, y2), k + 2,
                   acc + FDiv(power, k * Scale))

\* std::log for a positive argument
FLog(x) ==
    LET y == FDiv(x - Scale, x + Scale)
    IN LogSeries(FMul(y, y), y, 1, 0)

\* BlackScholesPricingEngine::calculateD1, past its two guards
calculateD1(S, K, r, q, sigma, T) ==
    FDiv(FLog(FDiv(S, K)) + FMul(r - q + FMul(sigma, sigma) \div 2, T),
         FMul(sigma, FSqrt(T)))

\* static constexpr double sqrt2pi = 2.506628274631, to four decimals
sqrt2pi == (25066 * Scale) \div 10000

\* BlackScholesPricingEngine::normalPDF
normalPDF(x) == FDiv(FExp(0 - FMul(x, x) \div 2), sqrt2pi)

\* the series x + x^3/3 + x^5/(3 5) + ... of the normal integral
RECURSIVE CDFSeries(_, _, _, _)
CDFSeries(x2, term, k, acc) ==
    IF term = 0 THEN acc
    ELSE CDFSeries(x2, FDiv(FMul(term, x2), (k + 2) * Scale), k + 2,
                   acc + term)

\* BlackScholesPricingEngine::normalCDF: erfc(-x / sqrt(2)) / 2
normalCDF(x) ==
    Scale \div 2 + FMul(normalPDF(x), CDFSeries(FMul(x, x), x, 1, 0))

\* BlackScholesPricingEngine::calculateDelta, calculateGamma and
\* calculateVega for a valid Option o
BlackScholesValue(q, o) ==
    LET S == o.spot
        K == o.strike
        T == Years(o.expiry)
        sigma == o.volatility
        d1 == calculateD1(S, K, o.rate, o.dividend, sigma, T)
        exp_term == FExp(0 - FMul(o.dividend, T))
    IN CASE q = "delta" ->
                FMul(exp_term, IF o.type = "Call" THEN normalCDF(d1)
                               ELSE normalCDF(d1) - Scale)
         [] q = "gamma" ->
                FDiv(FMul(exp_term, normalPDF(d1)),
                     FMul(FMul(S, sigma), FSqrt(T)))
         [] q = "vega" ->
                FDiv(FMul(FMul(FMul(S, exp_term), normalPDF(d1)), FSqrt(T)),
                     100 * Scale)

\* the Greeks the two engines are compared on
ComparedGreeks == {"delta", "gamma", "vega"}

\* 1.0, a hundred times the 1e-2 of the comparison: wide enough for what a
\* tree of a few steps and a finite difference put between the lattice
\* value and the closed form when the two are in the same unit
GreekTolerance == 100 * (Scale \div 100)

\* C27: for the same parameter set, the analytic engine and the lattice
\* engine report delta, gamma and vega in the same unit convention and
\* agree within the tolerance: the analytic closed-form value matches the
\* lattice engine's finite-difference value for each of the three Greeks.
C27_GreeksAgree ==
    (/\ lastCall.op \in ComparedGreeks
     /\ lastCall.via = "Binomial"
     /\ lastCall.out = "ok"
     /\ pre.class = "European")
        => Abs(Value(ret, binomial) - BlackScholesValue(lastCall.op, pre))
                <= GreekTolerance

-----------------------------------------------------------------------------
(* The tree, a loop iteration at a time: buildPriceTree and                *)
(* calculateOptionValues of one calculateWithParameters pass, the calling  *)
(* thread's position and locals in its frame                               *)

MaxTreeSteps == 3

\* size_t, at a width that holds every index of the trees built here
SizeWidth == 5
SizeModulus == 2 ^ SizeWidth

\* unsigned arithmetic wraps
SizeT(x) == x % SizeModulus

\* the backward loop tests its counter against zero: step != 0
LoopEnds_AtZero(step) == step = 0

\* the test of the backward loop fails: step != size_t(-1)
LoopEnds(step) == step = SizeT(0 - 1)

\* the frame of the pass in progress
Tree == callers[MainThread].call

\* the frame at the entry of buildPriceTree, num_steps_ = num_steps:
\* both vectors are sized (num_steps_ + 1) * (num_steps_ + 2) / 2; the
\* powers std::pow(u, n) and std::pow(d, n) the loop asks for are tabulated
EnterTree(num_steps) ==
    LET dt == Years(option.expiry) \div num_steps
        size == SizeT(SizeT((num_steps + 1) * (num_steps + 2)) \div 2)
        udp == calculateParameters(option, dt)
    IN [pc |-> "build", step |-> 0, node |-> 0,
        udp |-> udp,
        pow_u |-> [n \in 0 .. num_steps |-> FPow(udp.u, n)],
        pow_d |-> [n \in 0 .. num_steps |-> FPow(udp.d, n)],
        df |-> FExp(0 - FMul(option.rate, dt)),
        price_tree |-> ZeroVector(size), values |-> ZeroVector(size),
        written |-> {}, visited |-> <<>>, outside |-> FALSE,
        unwritten |-> FALSE]

\* the Options and engines of the passes followed
InitTree ==
    /\ alive = TRUE
    /\ \E class \in Classes, type \in Types, spot \in EngineSpots :
            option = setPricingEngine(
                        OptionCtor(class, type, 100 * Scale, 90, spot, 500,
                                   2000, 0).o,
                        "Binomial")
    /\ lastCall = NoCall
    /\ pre = option
    /\ ret = NoValue
    /\ unrestored = 0
    /\ \E num_steps \in 1 .. MaxTreeSteps :
            binomial = BinomialTreeEngine(num_steps, FALSE).e
    /\ configured = binomial
    /\ monteCarlo = MonteCarloEngine
    /\ priced = NotPriced
    /\ callers = [NoCallers EXCEPT
                    ![MainThread].call = EnterTree(binomial.num_steps_)]

\* the frame f replaces the frame of the pass, nothing else changes
TreeStep(f) ==
    /\ callers' = [callers EXCEPT ![MainThread].call = f]
    /\ UNCHANGED <<alive, option, lastCall, pre, ret, unrestored, binomial,
                   configured, monteCarlo, priced>>

\* one iteration of the inner loop of buildPriceTree, and the loop tests
\* that follow it
BuildNode ==
    /\ Tree.pc = "build"
    /\ LET f == Tree
           i == getIndex(f.step, f.node)
           price == FMul(FMul(option.spot, f.pow_u[f.node]),
                         f.pow_d[f.step - f.node])
           wrote == [f EXCEPT
                       !.price_tree = IF InBounds(f.price_tree, i)
                                      THEN [f.price_tree EXCEPT ![i] = price]
                                      ELSE Overrun(f.price_tree),
                       !.outside = f.outside \/ ~InBounds(f.price_tree, i)]
       IN TreeStep(
            IF f.node + 1 <= f.step
            THEN [wrote EXCEPT !.node = SizeT(f.node + 1)]
            ELSE IF f.step + 1 <= binomial.num_steps_
            THEN [wrote EXCEPT !.step = SizeT(f.step + 1), !.node = 0]
            ELSE [wrote EXCEPT !.pc = "terminal", !.node = 0])

\* one iteration of the terminal loop of calculateOptionValues; after the
\* last one the backward loop starts at num_steps_ - 1
TerminalNode ==
    /\ Tree.pc = "terminal"
    /\ LET f == Tree
           i == getIndex(binomial.num_steps_, f.node)
           inside == InBounds(f.values, i)
           wrote == [f EXCEPT
                       !.values = IF inside
                                  THEN [f.values EXCEPT
                                           ![i] = calculatePayoff(option,
                                                                  f.price_tree[i])]
                                  ELSE Overrun(f.values),
                       !.written = f.written \cup {i},
                       !.outside = f.outside \/ ~inside]
           first == SizeT(binomial.num_steps_ - 1)
       IN TreeStep(
            IF f.node + 1 <= binomial.num_steps_
            THEN [wrote EXCEPT !.node = SizeT(f.node + 1)]
            ELSE [wrote EXCEPT !.step = first, !.node = 0,
                               !.pc = IF LoopEnds(first) THEN "return"
                                      ELSE "induct"])

\* one iteration of the inner loop of the backward induction; after the
\* last node of a step the counter is decremented and tested
InductionNode ==
    /\ Tree.pc = "induct"
    /\ LET f == Tree
           up == getIndex(f.step + 1, f.node + 1)
           down == getIndex(f.step + 1, f.node)
           i == getIndex(f.step, f.node)
           inside == /\ InBounds(f.values, up)
                     /\ InBounds(f.values, down)
                     /\ InBounds(f.values, i)
           continuation == FMul(f.df, FMul(f.udp.p, f.values[up])
                                      + FMul(Scale - f.udp.p, f.values[down]))
           exercise == calculatePayoff(option, f.price_tree[i])
           wrote == [f EXCEPT
                       !.values = IF inside
                                  THEN [f.values EXCEPT
                                           ![i] = IF option.class = "American"
                                                  THEN FMax(continuation, exercise)
                                                  ELSE continuation]
                                  ELSE Overrun(f.values),
                       !.written = f.written \cup {i},
                       !.visited = Append(f.visited, <<f.step, f.node>>),
                       !.outside = f.outside \/ ~inside,
                       !.unwritten = f.unwritten \/ ~({up, down} \subseteq f.written)]
           next == SizeT(f.step - 1)
       IN TreeStep(
            IF f.node + 1 <= f.step
            THEN [wrote EXCEPT !.node = SizeT(f.node + 1)]
            ELSE [wrote EXCEPT !.step = next, !.node = 0,
                               !.pc = IF LoopEnds(next) THEN "return"
                                      ELSE "induct"])

\* calculateWithParameters returns option_values[0]
ReturnRoot ==
    /\ Tree.pc = "return"
    /\ callers' = [callers EXCEPT ![MainThread].call = [Tree EXCEPT !.pc = "done"]]
    /\ ret' = N(Tree.values[0])
    /\ lastCall' = [op |-> "price", via |-> "option", arg |-> 0, out |-> "ok"]
    /\ pre' = option
    /\ UNCHANGED <<alive, option, unrestored, binomial, configured, monteCarlo,
                   priced>>

\* engine.setNumSteps(steps), and the next price() enters its pass
CalculateAgain(steps) ==
    /\ Tree.pc = "done"
    /\ steps # binomial.num_steps_
    /\ binomial' = setNumSteps(binomial, steps)
    /\ configured' = binomial'
    /\ ret' = NoValue
    /\ lastCall' = [op |-> "setNumSteps", via |-> "Binomial", arg |-> steps,
                    out |-> "ok"]
    /\ pre' = option
    /\ callers' = [callers EXCEPT ![MainThread].call = EnterTree(steps)]
    /\ UNCHANGED <<alive, option, unrestored, monteCarlo, priced>>

\* the next step of the pass in progress
PassStep ==
    \/ BuildNode
    \/ TerminalNode
    \/ InductionNode
    \/ ReturnRoot

NextTree ==
    \/ PassStep
    \/ \E steps \in 1 .. MaxTreeSteps : CalculateAgain(steps)

SpecTree == InitTree /\ [][NextTree]_vars

\* the calling thread runs: a pass in progress takes its next step (every
\* step changes the frame); whether another call follows is up to the caller
SpecTreeFair == SpecTree /\ WF_callers(PassStep)

\* the nodes of a tree of num_steps steps
TreeNodes(num_steps) ==
    {sn \in (0 .. num_steps) \X (0 .. num_steps) : sn[2] <= sn[1]}

\* C28: the triangular addressing index(step,node) = step(step+1)/2 + node
\* is a bijection from the pairs {(step,node) : 0 <= node <= step <= N} onto
\* 0..(N+1)(N+2)/2 - 1, so no two tree nodes share a slot and every index
\* the price tree and the backward induction read or write (including
\* index(step+1,node+1)) lies inside the allocated array.
C28_IndexBijection ==
    LET num_steps == binomial.num_steps_
        slots == 0 .. ((num_steps + 1) * (num_steps + 2)) \div 2 - 1
    IN /\ \A a, b \in TreeNodes(num_steps) :
                getIndex(a[1], a[2]) = getIndex(b[1], b[2]) => a = b
       /\ {getIndex(sn[1], sn[2]) : sn \in TreeNodes(num_steps)} = slots
       /\ DOMAIN Tree.price_tree = slots
       /\ DOMAIN Tree.values = slots
       /\ ~Tree.outside

\* a pass over the largest tree has run to its end
C28_Witness ==
    /\ Tree.pc = "done"
    /\ binomial.num_steps_ = MaxTreeSteps
    /\ Tree.written = DOMAIN Tree.values

\* the nodes the backward induction visits from (step, node) on, in order
RECURSIVE Countdown(_, _)
Countdown(step, node) ==
    IF step < 0 THEN <<>>
    ELSE IF node > step THEN Countdown(step - 1, 0)
    ELSE <<(<<step, node>>)>> \o Countdown(step, node + 1)

\* s is the beginning of t
IsPrefix(s, t) == Len(s) <= Len(t) /\ s = SubSeq(t, 1, Len(s))

\* what holds of the backward induction at every point of a pass
InductionInOrder ==
    LET all == Countdown(binomial.num_steps_ - 1, 0)
    IN /\ IsPrefix(Tree.visited, all)
       /\ Tree.pc \in {"return", "done"} => Tree.visited = all
       /\ ~Tree.unwritten
       /\ Tree.pc = "done"
            => /\ ret = N(Tree.values[getIndex(0, 0)])
               /\ ret = N(calculateWithParameters(option, binomial.num_steps_))

\* C29: for every step count N >= 1 the backward induction terminates: its
\* unsigned countdown visits steps N-1, N-2, ..., 0 in that order, each node
\* (step,node) exactly once, and stops when the counter wraps past 0; every
\* value read at step+1 was written before it is read, and the value
\* returned as the price is the root node's.
C29_InductionTerminates ==
    /\ []InductionInOrder
    /\ (Tree.pc # "done") ~> (Tree.pc = "done")

\* the induction over the largest tree has stopped at the wrap of its
\* counter and the root value has been returned
C29_Witness ==
    /\ Tree.pc = "done"
    /\ binomial.num_steps_ = MaxTreeSteps
    /\ LoopEnds(Tree.step)
    /\ Len(Tree.visited) = (MaxTreeSteps * (MaxTreeSteps + 1)) \div 2
    /\ lastCall.op = "price"

\* C30: a Monte Carlo price() call never divides by zero: in every
\* reachable engine configuration the worker count used for the split is at
\* least 1 and the total simulated path count used as the divisor of the
\* mean and variance is at least 1.
C30_DivisorsPositive ==
    \A call \in Calls :
        /\ monteCarlo.num_threads_ >= 1
        /\ call.pc = "done" => call.total_paths >= 1

====
